---- MODULE Spec2Model ----
\* Oxford Instruments IPS support module: the alarm status decoder
\* (alarms.c, alarms.cpp) and the StreamDevice command/reply protocols
\* (OxInstIPS.protocol and its variants).
\*
\* Text is modelled character by character: a string is a sequence of
\* one-character strings, a C buffer is such a sequence holding NUL characters.
EXTENDS Integers, Sequences, FiniteSets, TLC

\* ------------------------------------------------------------------
\* Characters
\* ------------------------------------------------------------------
TAB == "\t"
SEMI == ";"
NUL == "NUL"
CR == "\r"
LF == "\n"

UpperCase == <<"A","B","C","D","E","F","G","H","I","J","K","L","M",
               "N","O","P","Q","R","S","T","U","V","W","X","Y","Z">>
LowerCase == <<"a","b","c","d","e","f","g","h","i","j","k","l","m",
               "n","o","p","q","r","s","t","u","v","w","x","y","z">>

\* tolower() of the C library
tolower(ch) ==
  IF \E i \in 1..26 : UpperCase[i] = ch
    THEN LowerCase[CHOOSE i \in 1..26 : UpperCase[i] = ch]
    ELSE ch

\* Smallest element of a non-empty set of integers
Min(S) == CHOOSE x \in S : \A y \in S : x <= y

\* ------------------------------------------------------------------
\* Board and fault tables
\* ------------------------------------------------------------------
NBOARDS == 4

\* #define MAX_TOKENS 32
MAX_TOKENS == 32

\* BOARD_ARRAY, the same four identifiers in alarms.c and alarms.cpp
BOARD_ARRAY ==
  << <<"M","B","1",".","T","1">>,
     <<"D","B","8",".","T","1">>,
     <<"D","B","1",".","L","1">>,
     <<"D","B","5",".","P","1">> >>

\* Temperature board faults (identical in both decoders)
STATUS_TEXT_TEMPERATURE ==
  << <<"O","p","e","n"," ","c","i","r","c","u","i","t">>,
     <<"S","h","o","r","t"," ","c","i","r","c","u","i","t">>,
     <<"C","a","l","i","b","r","a","t","i","o","n"," ","e","r","r","o","r">>,
     <<"F","i","r","m","w","a","r","e"," ","e","r","r","o","r">>,
     <<"B","o","a","r","d"," ","n","o","t"," ","c","o","n","f","i","g","u","r","e","d">> >>

\* Level board faults of alarms.c
STATUS_TEXT_LEVEL ==
  << <<"O","p","e","n"," ","c","i","r","c","u","i","t">>,
     <<"S","h","o","r","t"," ","c","i","r","c","u","i","t">>,
     <<"A","D","C"," ","e","r","r","o","r">>,
     <<"O","v","e","r"," ","d","e","m","a","n","d">>,
     <<"O","v","e","r"," ","t","e","m","p","e","r","a","t","u","r","e">>,
     <<"F","i","r","m","w","a","r","e"," ","e","r","r","o","r">>,
     <<"B","o","a","r","d"," ","n","o","t"," ","c","o","n","f","i","g","u","r","e","d">>,
     <<"N","o"," ","r","e","s","e","r","v","e">> >>

\* Level board faults of alarms.cpp (one more entry)
STATUS_TEXT_LEVEL_cpp ==
  << <<"O","p","e","n"," ","c","i","r","c","u","i","t">>,
     <<"S","h","o","r","t"," ","c","i","r","c","u","i","t">>,
     <<"A","D","C"," ","e","r","r","o","r">>,
     <<"O","v","e","r"," ","d","e","m","a","n","d">>,
     <<"O","v","e","r"," ","t","e","m","p","e","r","a","t","u","r","e">>,
     <<"F","i","r","m","w","a","r","e"," ","e","r","r","o","r">>,
     <<"B","o","a","r","d"," ","n","o","t"," ","c","o","n","f","i","g","u","r","e","d">>,
     <<"N","o"," ","r","e","s","e","r","v","e">>,
     <<"M","a","g","n","e","t"," ","S","a","f","e","t","y">> >>

\* Pressure board faults (identical in both decoders)
STATUS_TEXT_PRESSURE ==
  << <<"O","p","e","n"," ","c","i","r","c","u","i","t">>,
     <<"S","h","o","r","t"," ","c","i","r","c","u","i","t">>,
     <<"C","a","l","i","b","r","a","t","i","o","n"," ","e","r","r","o","r">>,
     <<"F","i","r","m","w","a","r","e"," ","e","r","r","o","r">>,
     <<"B","o","a","r","d"," ","n","o","t"," ","c","o","n","f","i","g","u","r","e","d">>,
     <<"O","v","e","r"," ","c","u","r","r","e","n","t">>,
     <<"C","u","r","r","e","n","t"," ","l","e","a","k","a","g","e">>,
     <<"P","o","w","e","r"," ","o","n"," ","f","a","i","l">>,
     <<"C","h","e","c","k","s","u","m"," ","f","a","i","l">>,
     <<"C","l","o","c","k"," ","f","a","i","l">>,
     <<"A","D","C"," ","f","a","i","l">>,
     <<"M","a","i","n","s"," ","f","a","i","l">>,
     <<"R","e","f","e","r","e","n","c","e"," ","f","a","i","l">>,
     <<"1","2","V"," ","f","a","i","l">>,
     <<"-","1","2","V"," ","f","a","i","l">>,
     <<"8","V"," ","f","a","i","l">>,
     <<"-","8","V"," ","f","a","i","l">>,
     <<"A","m","p"," ","g","a","i","n"," ","e","r","r","o","r">>,
     <<"A","m","p"," ","o","f","f","s","e","t"," ","e","r","r","o","r">>,
     <<"A","D","C"," ","o","f","f","s","e","t"," ","e","r","r","o","r">>,
     <<"A","D","C"," ","P","G","A"," ","e","r","r","o","r">>,
     <<"A","D","C"," ","X","T","A","L"," ","e","r","r","o","r">>,
     <<"E","x","c","i","t","a","t","i","o","n"," ","+"," ","e","r","r","o","r">>,
     <<"E","x","c","i","t","a","t","i","o","n"," ","-"," ","e","r","r","o","r">> >>

\* STATUS_TEXT_ARRAY[board_index] of the decoder variant v ("c" or "cpp")
STATUS_TEXT_ARRAY(v) ==
  << STATUS_TEXT_TEMPERATURE,
     STATUS_TEXT_TEMPERATURE,
     IF v = "cpp" THEN STATUS_TEXT_LEVEL_cpp ELSE STATUS_TEXT_LEVEL,
     STATUS_TEXT_PRESSURE >>

\* STATUS_TEXT_ARRAY_SIZE[board_index]
STATUS_TEXT_ARRAY_SIZE(v) == [b \in 1..NBOARDS |-> Len(STATUS_TEXT_ARRAY(v)[b])]

\* ------------------------------------------------------------------
\* Bit patterns (epicsInt32; the largest shift is 23, so no wrap occurs)
\* ------------------------------------------------------------------
Pow2(n) == 2 ^ n

TestBit(mask, i) == (mask \div Pow2(i)) % 2 = 1

\* mask |= (1 << i)
SetBit(mask, i) == IF TestBit(mask, i) THEN mask ELSE mask + Pow2(i)

\* ------------------------------------------------------------------
\* C strings in a buffer
\* ------------------------------------------------------------------
\* Index of the first occurrence of ch in s at or after from; 0 when absent
IndexFrom(s, ch, from) ==
  LET S == {i \in from..Len(s) : s[i] = ch}
  IN IF S = {} THEN 0 ELSE Min(S)

\* strlen of the C string starting at index 1 of buf
strlen(buf) == IndexFrom(buf, NUL, 1) - 1

\* The C string held in buf: the characters before the first NUL
CStr(buf) == SubSeq(buf, 1, strlen(buf))

\* A buffer holding the string s
Buffer(s) == s \o <<NUL>>

\* strstr(status, board_name): index of the first occurrence, 0 for NULL
strstr(buf, needle) ==
  LET n == Len(needle)
      S == {i \in 1..(strlen(buf) - n + 1) : SubSeq(buf, i, i + n - 1) = needle}
  IN IF S = {} THEN 0 ELSE Min(S)

\* strchr(found_board, ch): index of the first ch in the C string that starts
\* at from, 0 for NULL
strchr(buf, from, ch) ==
  LET end == IndexFrom(buf, NUL, from)
      S == {i \in from..(end - 1) : buf[i] = ch}
  IN IF S = {} THEN 0 ELSE Min(S)

\* One strtok(.., ";") call scanning buf from index pos (the string passed, or
\* the position saved by the previous call).  tok is <<first, last>> or
\* <<>> for NULL; the delimiter ending the token is overwritten with NUL.
strtok(buf, pos) ==
  LET S == {i \in pos..Len(buf) : buf[i] # SEMI}
      first == Min(S)
      T == {i \in first..Len(buf) : buf[i] = SEMI \/ buf[i] = NUL}
      stop == Min(T)
  IN IF buf[first] = NUL
       THEN [tok |-> <<>>, text |-> <<>>, buf |-> buf, save |-> first]
       ELSE [tok |-> <<first, stop - 1>>,
             text |-> SubSeq(buf, first, stop - 1),
             buf |-> IF buf[stop] = SEMI THEN [buf EXCEPT ![stop] = NUL] ELSE buf,
             save |-> IF buf[stop] = SEMI THEN stop + 1 ELSE stop]

\* ------------------------------------------------------------------
\* The record (aSubRecord) as the decoder sees it
\* ------------------------------------------------------------------
\* Field types the record can be configured with: the configuration
\* alarms.c accepts, the one alarms.cpp accepts, and one neither accepts.
FtString == [fta |-> "STRING", ftb |-> "STRING", ftc |-> "STRING", ftd |-> "STRING",
             fte |-> "STRING", ftva |-> "LONG", ftvb |-> "LONG", ftvc |-> "LONG",
             ftvd |-> "LONG"]
FtChar == [FtString EXCEPT !.fta = "CHAR"]
FtBadOut == [FtString EXCEPT !.ftvb = "DOUBLE"]
FieldTypes == {FtString, FtChar, FtBadOut}

\* No field type check: every configuration is accepted
TypesOk_Unchecked(v, ft) == TRUE

\* The field type check at the head of handle_system_alarm_status
TypesOk(v, ft) ==
  /\ ft.fta = (IF v = "cpp" THEN "CHAR" ELSE "STRING")
  /\ ft.ftb = "STRING" /\ ft.ftc = "STRING" /\ ft.ftd = "STRING" /\ ft.fte = "STRING"
  /\ ft.ftva = "LONG" /\ ft.ftvb = "LONG" /\ ft.ftvc = "LONG" /\ ft.ftvd = "LONG"

\* ------------------------------------------------------------------
\* alarms.cpp
\* ------------------------------------------------------------------
\* strcmp_nocase: equal length and equal characters after tolower
strcmp_nocase(a, b) ==
  /\ Len(a) = Len(b)
  /\ \A i \in 1..Len(a) : tolower(a[i]) = tolower(b[i])

\* The getline(check, token, ';') loop: the non-empty pieces between semicolons
RECURSIVE getline_tokens(_)
getline_tokens(s) ==
  IF s = <<>> THEN <<>>
  ELSE LET k == IndexFrom(s, SEMI, 1)
           token == IF k = 0 THEN s ELSE SubSeq(s, 1, k - 1)
           rest == IF k = 0 THEN <<>> ELSE SubSeq(s, k + 1, Len(s))
       IN (IF token = <<>> THEN <<>> ELSE <<token>>) \o getline_tokens(rest)

\* The loop over BOARD_ARRAY: the 1-based index of board_id, 0 for -1
board_index_of(board_id) ==
  LET S == {i \in 1..NBOARDS : board_id = BOARD_ARRAY[i]}
  IN IF S = {} THEN 0 ELSE Min(S)

\* The loop over status_text_array: the bit position of status_message, -1 if unknown
status_value_of(status_message, board_index) ==
  LET arr == STATUS_TEXT_ARRAY("cpp")[board_index]
      S == {j \in 1..STATUS_TEXT_ARRAY_SIZE("cpp")[board_index] :
              strcmp_nocase(status_message, arr[j])}
  IN IF S = {} THEN -1 ELSE Min(S) - 1

\* The body of the loop over token_list: out_bit_patterns after one token
process_token(out_bit_patterns, token) ==
  LET tab_pos == IndexFrom(token, TAB, 1)
      board_id == SubSeq(token, 1, tab_pos - 1)
      status_message == SubSeq(token, tab_pos + 1, Len(token))
      board_index == board_index_of(board_id)
      status_value == status_value_of(status_message, board_index)
  IN IF tab_pos = 0 THEN out_bit_patterns
     ELSE IF board_index = 0 THEN out_bit_patterns
     ELSE IF status_value = -1 THEN out_bit_patterns
     ELSE [out_bit_patterns EXCEPT ![board_index] = SetBit(@, status_value)]

RECURSIVE process_tokens(_, _)
process_tokens(out_bit_patterns, token_list) ==
  IF token_list = <<>> THEN out_bit_patterns
  ELSE process_tokens(process_token(out_bit_patterns, Head(token_list)), Tail(token_list))

\* handle_system_alarm_status of alarms.cpp on record r
handle_system_alarm_status_cpp(r) ==
  IF ~TypesOk("cpp", r.ft) THEN [rec |-> r, ret |-> -1]
  ELSE LET status == CStr(r.a)
           token_list == getline_tokens(status)
           out_bit_patterns == process_tokens(<<0, 0, 0, 0>>, token_list)
       IN [rec |-> [r EXCEPT !.vala = out_bit_patterns[1],
                             !.valb = out_bit_patterns[2],
                             !.valc = out_bit_patterns[3],
                             !.vald = out_bit_patterns[4]],
           ret |-> 0]

\* ------------------------------------------------------------------
\* alarms.c
\* ------------------------------------------------------------------
\* The while (token != NULL) loop: every token of the string at pos and the
\* buffer as strtok leaves it
RECURSIVE strtok_loop(_, _, _)
strtok_loop(buf, pos, token_list) ==
  LET t == strtok(buf, pos)
  IN IF t.tok = <<>> THEN [token_list |-> token_list, buf |-> t.buf]
     ELSE strtok_loop(t.buf, t.save, Append(token_list, t.text))

\* The lookup loops over token_list and the status text array of the board
lookup_bits(token_list, board_index) ==
  LET arr == STATUS_TEXT_ARRAY("c")[board_index]
      hits == {j \in 1..STATUS_TEXT_ARRAY_SIZE("c")[board_index] :
                 \E k \in 1..Len(token_list) : token_list[k] = arr[j]}
      RECURSIVE OrAll(_, _)
      OrAll(mask, J) ==
        IF J = {} THEN mask
        ELSE LET j == Min(J) IN OrAll(SetBit(mask, j - 1), J \ {j})
  IN OrAll(0, hits)

\* The board loop from board_index on: the record and the return value
RECURSIVE board_loop(_, _)
board_loop(r, board_index) ==
  IF board_index > NBOARDS THEN [rec |-> r, ret |-> 0]
  ELSE LET found_board == strstr(r.a, BOARD_ARRAY[board_index])
           board_status == strchr(r.a, found_board, TAB)
           toks == strtok_loop(r.a, board_status + 1, <<>>)
           bitpattern == lookup_bits(toks.token_list, board_index)
       IN IF found_board = 0
            THEN board_loop([r EXCEPT !.vala = 0], board_index + 1)
          ELSE IF board_status = 0
            THEN [rec |-> r, ret |-> -1]
          ELSE board_loop([r EXCEPT !.a = toks.buf, !.vala = bitpattern],
                          board_index + 1)

\* handle_system_alarm_status of alarms.c on record r
handle_system_alarm_status_c(r) ==
  IF ~TypesOk("c", r.ft) THEN [rec |-> r, ret |-> -1]
  ELSE board_loop(r, 1)

\* The subroutine the record calls
handle_system_alarm_status(v, r) ==
  IF v = "cpp" THEN handle_system_alarm_status_cpp(r)
  ELSE handle_system_alarm_status_c(r)

\* ==================================================================
\* The command/reply protocols (StreamDevice protocol files)
\* ==================================================================
Digits == <<"0","1","2","3","4","5","6","7","8","9">>

IsDigit(ch) == \E d \in 1..10 : Digits[d] = ch

DigitVal(ch) == (CHOOSE d \in 1..10 : Digits[d] = ch) - 1

IsSpace(ch) == ch = " " \/ ch = TAB

\* The value of a run of decimal digits
RECURSIVE DecimalValue(_)
DecimalValue(ds) ==
  IF ds = <<>> THEN 0
  ELSE 10 * DecimalValue(SubSeq(ds, 1, Len(ds) - 1)) + DigitVal(ds[Len(ds)])

\* The decimal digits of a natural number
RECURSIVE DecimalDigits(_)
DecimalDigits(n) ==
  IF n < 10 THEN <<Digits[n + 1]>>
  ELSE DecimalDigits(n \div 10) \o <<Digits[(n % 10) + 1]>>

\* The first n characters of s, all of s when it is shorter
Take(s, n) == SubSeq(s, 1, IF n < Len(s) THEN n ELSE Len(s))

\* Length of the longest prefix of s made of digits
DigitPrefixLen(s) ==
  LET S == {i \in 1..Len(s) : ~IsDigit(s[i])}
  IN IF S = {} THEN Len(s) ELSE Min(S) - 1

\* Length of the longest prefix of s free of white space
WordPrefixLen(s) ==
  LET S == {i \in 1..Len(s) : IsSpace(s[i])}
  IN IF S = {} THEN Len(s) ELSE Min(S) - 1

\* ------------------------------------------------------------------
\* Format templates
\* ------------------------------------------------------------------
\* A literal character of a template
Lit(ch) == [k |-> "lit", ch |-> ch]

\* The literal characters of the string s
LitStr(s) == [i \in 1..Len(s) |-> Lit(s[i])]

\* A conversion: conv is the conversion character, w the width (0: none),
\* to the record the value is redirected to ("VAL": the record running the
\* protocol, "": the value is skipped, %*)
Conv(conv, w, to) == [k |-> conv, w |-> w, to |-> to]

\* The steps of a protocol
Out(fmt) == [op |-> "out", fmt |-> fmt]
Wait(ms) == [op |-> "wait", ms |-> ms]
In(tmpl) == [op |-> "in", tmpl |-> tmpl]

\* wait 100;
WaitMs == 100

\* A number as %f reads it: sign, decimal mantissa and number of decimals,
\* trailing zero decimals dropped
RECURSIVE Normalise(_)
Normalise(x) ==
  IF x.scale > 0 /\ x.mant % 10 = 0
    THEN Normalise([x EXCEPT !.mant = x.mant \div 10, !.scale = x.scale - 1])
    ELSE IF x.mant = 0 THEN [x EXCEPT !.neg = FALSE] ELSE x

Zero == [neg |-> FALSE, mant |-> 0, scale |-> 0]

\* %f on input: optional sign, digits, optional point and digits, at least one
\* digit.  n is the number of characters consumed, 0 when there is no number.
ScanFloat(input) ==
  LET sign == IF input # <<>> /\ Head(input) \in {"+", "-"} THEN 1 ELSE 0
      afterSign == SubSeq(input, sign + 1, Len(input))
      ni == DigitPrefixLen(afterSign)
      afterInt == SubSeq(afterSign, ni + 1, Len(afterSign))
      point == IF afterInt # <<>> /\ Head(afterInt) = "." THEN 1 ELSE 0
      nf == IF point = 1 THEN DigitPrefixLen(Tail(afterInt)) ELSE 0
      digits == SubSeq(afterSign, 1, ni) \o SubSeq(afterInt, 2, nf + 1)
  IN IF ni + nf = 0 THEN [n |-> 0, value |-> Zero]
     ELSE [n |-> sign + ni + (IF nf > 0 \/ ni > 0 THEN point ELSE 0) + nf,
           value |-> Normalise([neg |-> (sign = 1 /\ Head(input) = "-"),
                                mant |-> DecimalValue(digits), scale |-> nf])]

\* One conversion on the input: n characters consumed (0: no match) and the value
ScanConv(e, input) ==
  CASE e.k = "u" ->
         LET n == DigitPrefixLen(IF e.w = 0 THEN input ELSE Take(input, e.w))
         IN [n |-> n, value |-> DecimalValue(SubSeq(input, 1, n))]
    [] e.k = "f" -> ScanFloat(input)
    [] e.k = "s" ->
         LET n == WordPrefixLen(input)
         IN [n |-> n, value |-> SubSeq(input, 1, n)]
    [] e.k = "c" -> [n |-> Len(input), value |-> input]

\* The input line against an in template.  writes are the values converted, in
\* order, up to the end or to the first mismatch; input left over after the
\* last element is ignored (ExtraInput = Ignore).
RECURSIVE MatchIn(_, _, _)
MatchIn(tmpl, input, writes) ==
  IF tmpl = <<>> THEN [ok |-> TRUE, writes |-> writes]
  ELSE LET e == Head(tmpl)
       IN IF e.k = "lit"
            THEN IF input # <<>> /\ Head(input) = e.ch
                   THEN MatchIn(Tail(tmpl), Tail(input), writes)
                   ELSE [ok |-> FALSE, writes |-> writes]
            ELSE LET r == ScanConv(e, input)
                 IN IF r.n = 0
                      THEN [ok |-> FALSE, writes |-> writes]
                      ELSE MatchIn(Tail(tmpl), SubSeq(input, r.n + 1, Len(input)),
                                   IF e.to = "" THEN writes
                                   ELSE Append(writes, [to |-> e.to, value |-> r.value]))

\* ------------------------------------------------------------------
\* Output formats
\* ------------------------------------------------------------------
\* n as exactly w decimal digits, zero padded
RECURSIVE PaddedDigits(_, _)
PaddedDigits(n, w) ==
  IF w = 0 THEN <<>> ELSE PaddedDigits(n \div 10, w - 1) \o <<Digits[(n % 10) + 1]>>

\* The number x printed with an exponent
FormatFixed_Exponent(x, prec) ==
  (IF x.neg THEN <<"-">> ELSE <<>>) \o DecimalDigits(x.mant) \o <<"e", "-">>
    \o DecimalDigits(x.scale)

\* %#.<prec>f of the number x: sign, integer part, point, prec decimals
\* (rounded to nearest)
FormatFixed(x, prec) ==
  LET q == IF x.scale <= prec
             THEN x.mant * (10 ^ (prec - x.scale))
             ELSE (x.mant + (10 ^ (x.scale - prec)) \div 2) \div (10 ^ (x.scale - prec))
  IN (IF x.neg THEN <<"-">> ELSE <<>>)
       \o DecimalDigits(q \div (10 ^ prec)) \o <<".">> \o PaddedDigits(q % (10 ^ prec), prec)

\* %{a|b|..}: choices are the strings, selected by the value 0, 1, ..
Enum(choices) == [k |-> "enum", choices |-> choices]

\* %#.<prec>f
Fixed(prec) == [k |-> "fixed", prec |-> prec]

\* %u
Unsigned == [k |-> "u"]

\* The line an out format gives for the record value param: ok is FALSE when
\* the value cannot be formatted (an enum value without a string)
RECURSIVE Render(_, _)
Render(fmt, param) ==
  IF fmt = <<>> THEN [ok |-> TRUE, line |-> <<>>]
  ELSE LET e == Head(fmt)
           rest == Render(Tail(fmt), param)
           this ==
             CASE e.k = "lit" -> [ok |-> TRUE, line |-> <<e.ch>>]
               [] e.k = "u" -> [ok |-> TRUE, line |-> DecimalDigits(param)]
               [] e.k = "fixed" -> [ok |-> TRUE, line |-> FormatFixed(param, e.prec)]
               [] e.k = "enum" ->
                    IF param \in 0..(Len(e.choices) - 1)
                      THEN [ok |-> TRUE, line |-> e.choices[param + 1]]
                      ELSE [ok |-> FALSE, line |-> <<>>]
       IN [ok |-> this.ok /\ rest.ok, line |-> this.line \o rest.line]

\* ------------------------------------------------------------------
\* The protocol files
\* ------------------------------------------------------------------
\* "full": the OxInstIPS.protocol with waits, setRemoteUnlocked and the heater
\* command; "legacy": the OxInstIPS.protocol of OxInstIPSApp/protocol, without
\* them; "test": OxInstIPSTest.protocol, which only reads
ProtocolVariants == {"full", "legacy", "test"}

\* Terminator = "\r"; in each of the three files
Terminator(v) == <<CR>>

\* The terminator the device ends its replies with once it has received
\* line, having used cur before: Q0 and Q4 select <CR>, Q2 and Q6 <CR><LF>
DeviceTerminator(cur, line) ==
  IF line \in {<<"Q", "0">>, <<"Q", "4">>} THEN <<CR>>
  ELSE IF line \in {<<"Q", "2">>, <<"Q", "6">>} THEN <<CR, LF>>
  ELSE cur

\* The steps as they are, with no wait in any variant
Paced_NoWait(v, steps) == steps

\* wait 100; after out and in, present in the full variant only
Paced(v, steps) ==
  IF v = "full"
    THEN [i \in 1..(2 * Len(steps)) |-> IF i % 2 = 1 THEN steps[(i + 1) \div 2] ELSE Wait(WaitMs)]
    ELSE steps

\* getVersion { out "V"; in "%(\$1MODEL.VAL)s%(\$1VERSION.VAL)c"; }
getVersion(v) ==
  Paced(v, <<Out(LitStr(<<"V">>)), In(<<Conv("s", 0, "MODEL"), Conv("c", 0, "VERSION")>>)>>)

\* The parameter codes with getDemandCurrent reading R3
ReadCodes_Reserved ==
  [getDemandCurrent |-> <<"3">>, getSupplyVoltage |-> <<"1">>,
   getMeasuredMagnetCurrent |-> <<"2">>, getSetpointCurrent |-> <<"5">>,
   getCurrentSweepRate |-> <<"6">>, getDemandField |-> <<"7">>,
   getSetpointField |-> <<"8">>, getFieldSweepRate |-> <<"9">>,
   getSoftwareVoltageLimit |-> <<"1","5">>, getPersistentMagnetCurrent |-> <<"1","6">>,
   getTripCurrent |-> <<"1","7">>, getPersistentMagnetField |-> <<"1","8">>,
   getTripField |-> <<"1","9">>, getHeaterCurrent |-> <<"2","0">>,
   getNegCurrentLimit |-> <<"2","1">>, getPosCurrentLimit |-> <<"2","2">>,
   getLeadResistance |-> <<"2","3">>, getMagnetInductance |-> <<"2","4">>]

\* The parameter codes of the R commands the files define
ReadCodes ==
  [getDemandCurrent |-> <<"0">>, getSupplyVoltage |-> <<"1">>,
   getMeasuredMagnetCurrent |-> <<"2">>, getSetpointCurrent |-> <<"5">>,
   getCurrentSweepRate |-> <<"6">>, getDemandField |-> <<"7">>,
   getSetpointField |-> <<"8">>, getFieldSweepRate |-> <<"9">>,
   getSoftwareVoltageLimit |-> <<"1","5">>, getPersistentMagnetCurrent |-> <<"1","6">>,
   getTripCurrent |-> <<"1","7">>, getPersistentMagnetField |-> <<"1","8">>,
   getTripField |-> <<"1","9">>, getHeaterCurrent |-> <<"2","0">>,
   getNegCurrentLimit |-> <<"2","1">>, getPosCurrentLimit |-> <<"2","2">>,
   getLeadResistance |-> <<"2","3">>, getMagnetInductance |-> <<"2","4">>]

ReadNames == DOMAIN ReadCodes

\* A parameter read whose template begins with X
ReadParameter_WrongLetter(v, name) ==
  Paced(v, <<Out(LitStr(<<"R">> \o ReadCodes[name])),
             In(<<Lit("X"), Conv("f", 0, "VAL")>>)>>)

\* getXxx { out "R<code>"; in "R%f"; }
ReadParameter(v, name) ==
  Paced(v, <<Out(LitStr(<<"R">> \o ReadCodes[name])),
             In(<<Lit("R"), Conv("f", 0, "VAL")>>)>>)

\* The template of getStatus with the records of the first two digits exchanged
StatusTemplate_Swapped(v) ==
  <<Lit("X"), Conv("u", 1, "LIMIT"), Conv("u", 1, "FAULT"),
    Lit("A"), Conv("u", 1, "ACTIVITY"),
    Lit("C"), Conv("u", 1, "CONTROL"),
    Lit("H"), Conv("u", 1, "HEATER"),
    Lit("M"), Conv("u", 1, "PARAMS"), Conv("u", 1, "SWEEP")>>

\* The in template of getStatus
StatusTemplate(v) ==
  <<Lit("X"), Conv("u", 1, "FAULT"), Conv("u", 1, "LIMIT"),
    Lit("A"), Conv("u", 1, "ACTIVITY"),
    Lit("C"), Conv("u", 1, "CONTROL"),
    Lit("H"), Conv("u", 1, "HEATER")>>
  \o (IF v = "full"
        THEN <<Lit("M"), Conv("u", 1, ""), Conv("u", 1, "SWEEP")>>
        ELSE <<Lit("M"), Conv("u", 1, "PARAMS"), Conv("u", 1, "SWEEP"),
               Lit("P"), Conv("u", 1, ""), Conv("u", 1, "")>>)

\* getStatus { out "X"; in "X..."; }
getStatus(v) ==
  IF v = "full"
    THEN <<Out(LitStr(<<"X">>)), Wait(WaitMs), In(StatusTemplate(v)), Wait(WaitMs)>>
    ELSE <<Out(LitStr(<<"X">>)), In(StatusTemplate(v))>>

\* No command with a @mismatch handler
MismatchHandler_None(v, name) == <<>>

\* @mismatch { in "%(\$1:DBG:STS:MISMATCH.VAL)c"; } of getStatus
MismatchHandler(v, name) ==
  IF name = "getStatus" /\ v # "full" THEN <<Conv("c", 0, "MISMATCH")>> ELSE <<>>

\* setRemoteUnlocked { out "C3"; wait 100; in "C"; wait 100; }
setRemoteUnlocked ==
  <<Out(LitStr(<<"C", "3">>)), Wait(WaitMs), In(<<Lit("C")>>), Wait(WaitMs)>>

\* The formats with the heater value written as a number: out "H%u"
WriteFormats_HeaterUnsigned ==
  [setWaitInterval |-> [fmt |-> <<Lit("W"), Unsigned>>, ack |-> <<"W">>],
   setControl |-> [fmt |-> <<Enum(<< <<"C","0">>, <<"C","1">>, <<"C","2">>, <<"C","3">> >>)>>,
                   ack |-> <<"C">>],
   setActivity |-> [fmt |-> <<Lit("A"), Unsigned>>, ack |-> <<"A">>],
   setHeaterStatus |-> [fmt |-> <<Lit("H"), Unsigned>>, ack |-> <<"H">>],
   setSetpointCurrent |-> [fmt |-> <<Lit("I"), Fixed(4)>>, ack |-> <<"I">>],
   setSetpointField |-> [fmt |-> <<Lit("J"), Fixed(5)>>, ack |-> <<"J">>],
   setMode |-> [fmt |-> <<Lit("M"), Unsigned>>, ack |-> <<"M">>],
   setCurrentSweeprate |-> [fmt |-> <<Lit("S"), Fixed(3)>>, ack |-> <<"S">>],
   setFieldSweeprate |-> [fmt |-> <<Lit("T"), Fixed(4)>>, ack |-> <<"T">>],
   setCommsResNormal |-> [fmt |-> LitStr(<<"Q","0">>), ack |-> <<>>],
   setCommsResLF |-> [fmt |-> LitStr(<<"Q","2">>), ack |-> <<>>],
   setCommsResExtended |-> [fmt |-> LitStr(<<"Q","4">>), ack |-> <<>>],
   setCommsResLFExtended |-> [fmt |-> LitStr(<<"Q","6">>), ack |-> <<>>]]

\* The out format and the acknowledgement letter of the commands that set
WriteFormats ==
  [setWaitInterval |-> [fmt |-> <<Lit("W"), Unsigned>>, ack |-> <<"W">>],
   setControl |-> [fmt |-> <<Enum(<< <<"C","0">>, <<"C","1">>, <<"C","2">>, <<"C","3">> >>)>>,
                   ack |-> <<"C">>],
   setActivity |-> [fmt |-> <<Lit("A"), Unsigned>>, ack |-> <<"A">>],
   setHeaterStatus |-> [fmt |-> <<Lit("H"), Enum(<< <<"0">>, <<"1">> >>)>>, ack |-> <<"H">>],
   setSetpointCurrent |-> [fmt |-> <<Lit("I"), Fixed(4)>>, ack |-> <<"I">>],
   setSetpointField |-> [fmt |-> <<Lit("J"), Fixed(5)>>, ack |-> <<"J">>],
   setMode |-> [fmt |-> <<Lit("M"), Unsigned>>, ack |-> <<"M">>],
   setCurrentSweeprate |-> [fmt |-> <<Lit("S"), Fixed(3)>>, ack |-> <<"S">>],
   setFieldSweeprate |-> [fmt |-> <<Lit("T"), Fixed(4)>>, ack |-> <<"T">>],
   setCommsResNormal |-> [fmt |-> LitStr(<<"Q","0">>), ack |-> <<>>],
   setCommsResLF |-> [fmt |-> LitStr(<<"Q","2">>), ack |-> <<>>],
   setCommsResExtended |-> [fmt |-> LitStr(<<"Q","4">>), ack |-> <<>>],
   setCommsResLFExtended |-> [fmt |-> LitStr(<<"Q","6">>), ack |-> <<>>]]

\* A command that sets and does not read the acknowledgement
WriteCommand_NoAck(v, name) ==
  LET own == <<Out(WriteFormats[name].fmt)>>
  IN IF v = "full" THEN setRemoteUnlocked \o Paced(v, own) ELSE own

\* A command that sets, without setRemoteUnlocked in front in any file
WriteCommand_NoPrecondition(v, name) ==
  LET w == WriteFormats[name]
      own == <<Out(w.fmt)>> \o (IF w.ack = <<>> THEN <<>> ELSE <<In(LitStr(w.ack))>>)
  IN Paced(v, own)

\* setXxx { setRemoteUnlocked; out "..."; wait 100; in "<letter>"; wait 100; }
\* in the full variant, setXxx { out "..."; in "<letter>"; } in the legacy one;
\* the Q commands read no reply
WriteCommand(v, name) ==
  LET w == WriteFormats[name]
      own == <<Out(w.fmt)>> \o (IF w.ack = <<>> THEN <<>> ELSE <<In(LitStr(w.ack))>>)
  IN IF v = "full" THEN setRemoteUnlocked \o Paced(v, own) ELSE own

\* The commands that set, defined in every file
WriteNames_Everywhere(v) == DOMAIN WriteFormats

\* The commands each protocol file defines
WriteNames(v) ==
  CASE v = "full" -> DOMAIN WriteFormats
    [] v = "legacy" -> DOMAIN WriteFormats \ {"setHeaterStatus"}
    [] v = "test" -> {}

CommandNames(v) ==
  {"getVersion", "getStatus"} \cup ReadNames \cup WriteNames(v)
    \cup (IF v = "full" THEN {"setRemoteUnlocked"} ELSE {})

\* The steps of command name in protocol file v
Protocol(v, name) ==
  CASE name = "getVersion" -> getVersion(v)
    [] name = "getStatus" -> getStatus(v)
    [] name = "setRemoteUnlocked" -> setRemoteUnlocked
    [] name \in ReadNames -> ReadParameter(v, name)
    [] OTHER -> WriteCommand(v, name)

\* ------------------------------------------------------------------
\* The records the protocols write to, and the engine running a protocol
\* ------------------------------------------------------------------
\* The records named in %(...) redirections
StatusOutputs == {"FAULT", "LIMIT", "ACTIVITY", "CONTROL", "HEATER", "PARAMS", "SWEEP"}

TextOutputs == {"MODEL", "VERSION", "MISMATCH"}

\* Every record a reply can be written to: the redirections, and the record
\* of each parameter read (its own VAL)
OutputNames == StatusOutputs \cup TextOutputs \cup ReadNames

\* The values of the records before any protocol has run
InitialValues ==
  [n \in OutputNames |->
     IF n \in StatusOutputs THEN 0 ELSE IF n \in TextOutputs THEN <<>> ELSE Zero]

\* No line (nothing read yet)
NoLine == <<NUL>>

\* What passes on the stream during one protocol: a line sent (out), a line
\* read and how it was classed (in), or no line within replytimeout (timeout)
Event(op, line, scan) == [op |-> op, line |-> line, scan |-> scan]

\* The engine with no protocol running
IdleEngine ==
  [cmd |-> "", param |-> 0, steps |-> <<>>, outcome |-> "none",
   sent |-> <<>>, log |-> <<>>, reply |-> NoLine, tmpl |-> <<>>, scan |-> "none",
   before |-> InitialValues, count |-> 0]

\* ------------------------------------------------------------------
\* Alarm status messages
\* ------------------------------------------------------------------
\* The entries a message is built from: id is the text before the first tab
\* (the whole entry when tab is FALSE), text the text after it.
CorePool ==
  << [id |-> <<"M","B","1",".","T","1">>,
      tab |-> TRUE, text |-> <<"O","p","e","n"," ","c","i","r","c","u","i","t">>],
     [id |-> <<"M","B","1",".","T","1">>,
      tab |-> TRUE, text |-> <<"S","h","o","r","t"," ","c","i","r","c","u","i","t">>],
     [id |-> <<"D","B","8",".","T","1">>,
      tab |-> TRUE, text |-> <<"O","p","e","n"," ","C","i","r","c","u","i","t">>],
     [id |-> <<"D","B","1",".","L","1">>,
      tab |-> TRUE, text |-> <<"M","a","g","n","e","t"," ","S","a","f","e","t","y">>],
     [id |-> <<"D","B","5",".","P","1">>,
      tab |-> TRUE, text |-> <<"E","x","c","i","t","a","t","i","o","n"," ","-"," ","e","r","r","o","r">>],
     [id |-> <<"B","O","G","U","S",".","T","1">>,
      tab |-> TRUE, text |-> <<"O","p","e","n"," ","c","i","r","c","u","i","t">>],
     [id |-> <<"S","h","o","r","t"," ","c","i","r","c","u","i","t">>,
      tab |-> FALSE, text |-> <<>>],
     [id |-> <<"S","T","A","T",":","S","Y","S",":","A","L","R","M",":","D","B","8",".","T","1">>,
      tab |-> TRUE, text |-> <<"O","p","e","n"," ","c","i","r","c","u","i","t">>],
     [id |-> <<"M","B","1",".","T","1">>,
      tab |-> TRUE, text |-> <<"O","p","e","n">>],
     [id |-> <<"M","B","1",".","T","1">>,
      tab |-> FALSE, text |-> <<>>],
     [id |-> <<>>,
      tab |-> FALSE, text |-> <<>>] >>

\* Entries that differ from a board ID or from a fault text of the
\* vocabulary in letter case, by a character more or by characters less
NearMissPool ==
  << [id |-> <<"D","B","5",".","P","1">>,
      tab |-> TRUE, text |-> <<"O","p","e","n"," ","C","i","r","c","u","i","t">>],
     [id |-> <<"X","D","B","5",".","P","1">>,
      tab |-> TRUE, text |-> <<"O","p","e","n"," ","c","i","r","c","u","i","t">>],
     [id |-> <<"d","b","5",".","p","1">>,
      tab |-> TRUE, text |-> <<"O","p","e","n"," ","c","i","r","c","u","i","t">>],
     [id |-> <<"D","B","5",".","P","1">>,
      tab |-> TRUE, text |-> <<"O","p","e","n"," ","c","i","r","c","u","i","t","s">>],
     [id |-> <<"D","B","5",".","P","1">>,
      tab |-> TRUE, text |-> <<"c","i","r","c","u","i","t">>],
     [id |-> <<"D","B","5",".","P","1">>,
      tab |-> TRUE, text |-> <<"O","p","e","n">>],
     [id |-> <<"D","B","5",".","P","1">>,
      tab |-> TRUE, text |-> <<"O","p","e","n"," ","c","i","r","c","u","i","t">>] >>

EntryPool == CorePool \o NearMissPool

\* Largest number of entries of a message
MaxEntries == 2

\* Largest number of calls of the subroutine on one input
MaxRepeat == 2

RenderEntry(e) == IF e.tab THEN e.id \o <<TAB>> \o e.text ELSE e.id

\* BOARD_ID<TAB>FAULT_TEXT;BOARD_ID<TAB>FAULT_TEXT;... of the entries es
\* (a sequence of indices into EntryPool)
RECURSIVE RenderMessage(_)
RenderMessage(es) ==
  IF es = <<>> THEN <<>>
  ELSE RenderEntry(EntryPool[Head(es)]) \o <<SEMI>> \o RenderMessage(Tail(es))

\* The messages of up to MaxEntries entries of CorePool, and those of one
\* entry of EntryPool
Messages == UNION {[1..n -> 1..Len(CorePool)] : n \in 0..MaxEntries}

OneEntryMessages == {<<k>> : k \in 1..Len(EntryPool)}

\* The messages used where two records are followed side by side
ProbeMessages == {<<>>, <<5>>, <<10>>, <<5, 1>>, <<1, 5>>, <<5, 7>>}

\* ------------------------------------------------------------------
\* State
\* ------------------------------------------------------------------
Callers == {1, 2}

VARIABLES
  variant,      \* the decoder linked into the IOC: "c" (alarms.c) or "cpp" (alarms.cpp)
  prec,         \* prec[c]: the aSub record of caller c: ft, a, vala, valb, valc, vald
  ret,          \* ret[c]: what the last call on prec[c] returned
  given,        \* given[c]: the entries of the message last put into prec[c].a
  calls,        \* calls[c]: calls of the subroutine since that message was put
  old,          \* old[c]: prec[c] as it was when the last call began
  loc,          \* loc[c]: the local variables of caller c's call in progress
  strtok_save,  \* the position strtok keeps between calls (one per process)
  pvariant,     \* the protocol file loaded: "full", "legacy" or "test"
  eng,          \* the protocol running: command, steps left, lines sent, line read, outcome
  outs,         \* outs[n]: the value of record n
  holder,       \* the client that holds the lock of the device connection, 0: nobody
  client,       \* client[c]: the command record c runs, its steps left, its outcome
  wire,         \* what passed on the connection, each event with the run it belongs to
  terminator,   \* the terminator the engine ends its lines with and reads up to
  devterm,      \* the terminator the device ends its replies with
  pending,      \* the replies of the device that the engine has not read yet
  control       \* the control mode of the device: 0 to 3, as set by a C line

decoderVars == <<variant, prec, ret, given, calls, old>>

concVars == <<loc, strtok_save>>

protoVars == <<pvariant, eng, outs>>

lockVars == <<holder, client, wire>>

termVars == <<terminator, devterm>>

vars ==
  <<variant, prec, ret, given, calls, old, loc, strtok_save, pvariant, eng, outs,
    holder, client, wire, terminator, devterm, pending, control>>

\* The records that run commands on the one device connection
Clients == {1, 2}

\* A record that runs no command
IdleClient == [cmd |-> "", steps |-> <<>>, state |-> "idle", outcome |-> "none", runs |-> 0]

\* Nobody uses the connection
IdleConnection ==
  /\ holder = 0
  /\ client = [c \in Clients |-> IdleClient]
  /\ wire = <<>>

\* The engine uses the terminator of its protocol file, the device the one
\* it has after power-up
LineAsConfigured ==
  /\ terminator = Terminator(pvariant)
  /\ devterm = <<CR>>
  /\ pending = <<>>

\* No protocol is running
IdleProtocol ==
  /\ pvariant = "full"
  /\ eng = IdleEngine
  /\ outs = InitialValues
  /\ IdleConnection
  /\ LineAsConfigured
  /\ control = 0

\* VALA..VALD are fields of the record: before the first call they hold
\* zero (init_record) or a value put into the record from outside.
InitialOutputs == {0, 1}

\* The locals of a caller that is not inside the subroutine
IdleLocals ==
  [pc |-> "idle", board_index |-> 0, board_status |-> 0, token |-> <<>>,
   token_null |-> TRUE, token_list |-> <<>>, out_bit_patterns |-> <<0, 0, 0, 0>>]

NewRecord(ft, v0) ==
  [ft |-> ft, a |-> Buffer(<<>>), vala |-> v0, valb |-> v0, valc |-> v0, vald |-> v0]

InitDecoder ==
  /\ variant \in {"c", "cpp"}
  /\ \E ft \in FieldTypes, v0 \in InitialOutputs :
       prec = [c \in Callers |-> NewRecord(ft, v0)]
  /\ ret = [c \in Callers |-> 0]
  /\ given = [c \in Callers |-> <<>>]
  /\ calls = [c \in Callers |-> 0]
  /\ old = prec
  /\ loc = [c \in Callers |-> IdleLocals]
  /\ strtok_save = [rec |-> 1, pos |-> 1]
  /\ IdleProtocol

\* The record layer fetches INPA: the message es is copied into prec->a
PutInput(c, es) ==
  /\ prec' = [prec EXCEPT ![c].a = Buffer(RenderMessage(es))]
  /\ given' = [given EXCEPT ![c] = es]
  /\ calls' = [calls EXCEPT ![c] = 0]
  /\ old' = [old EXCEPT ![c] = prec'[c]]
  /\ UNCHANGED <<protoVars, lockVars, termVars, pending, control, variant, ret, concVars>>

\* The record processes: one whole call of handle_system_alarm_status
Process(c) ==
  /\ calls[c] < MaxRepeat
  /\ LET res == handle_system_alarm_status(variant, prec[c])
     IN /\ prec' = [prec EXCEPT ![c] = res.rec]
        /\ ret' = [ret EXCEPT ![c] = res.ret]
  /\ old' = [old EXCEPT ![c] = prec[c]]
  /\ calls' = [calls EXCEPT ![c] = calls[c] + 1]
  /\ UNCHANGED <<protoVars, lockVars, termVars, pending, control, variant, given, concVars>>

Init == InitDecoder

Next ==
  \/ \E es \in Messages : PutInput(1, es)
  \/ Process(1)

\* One record, processed any number of times
Spec == Init /\ [][Next]_vars

\* Largest number of entries of a long message
MaxLong == 34

\* The message of n entries: entry a repeated, then entry z
LongMessage(n, a, z) == [i \in 1..n |-> IF i < n THEN a ELSE z]

\* The entries long messages are filled with, and the entries they end with
Fillers == {1, 6, 11}

Closers == {2, 5}

\* The numbers of entries of the long messages: few, and around MAX_TOKENS
LongLengths == {1, 2, MaxLong - 2, MaxLong - 1, MaxLong}

Max(S) == CHOOSE x \in S : \A y \in S : x >= y

\* The largest token_index alarms.c reaches in its while (token != NULL)
\* loops, over the boards from board_index on, for the message in buf
RECURSIVE token_index_max(_, _)
token_index_max(buf, board_index) ==
  IF board_index > NBOARDS THEN 0
  ELSE LET found_board == strstr(buf, BOARD_ARRAY[board_index])
           board_status == strchr(buf, found_board, TAB)
           toks == strtok_loop(buf, board_status + 1, <<>>)
       IN IF found_board = 0 THEN token_index_max(buf, board_index + 1)
          ELSE IF board_status = 0 THEN 0
          ELSE Max({Len(toks.token_list), token_index_max(toks.buf, board_index + 1)})

\* token_list[token_index] = new_token with token_index >= MAX_TOKENS: the
\* store goes past the end of the array on the stack.  What follows is not
\* defined: the call may return either value with anything in VALA, or the
\* IOC may stop.
StoreBeyondTokenList(c) ==
  \E garbage \in {0, 1}, rv \in {0, -1}, stopped \in BOOLEAN :
    /\ prec' = [prec EXCEPT ![c].vala = garbage]
    /\ ret' = [ret EXCEPT ![c] = rv]
    /\ loc' = [loc EXCEPT ![c].pc = IF stopped THEN "stopped" ELSE @]
    /\ old' = [old EXCEPT ![c] = prec[c]]
    /\ calls' = [calls EXCEPT ![c] = calls[c] + 1]
    /\ UNCHANGED <<protoVars, lockVars, termVars, pending, control, variant, given, strtok_save>>

\* The record processes with a message of any length
ProcessLong(c) ==
  /\ loc[c].pc # "stopped"
  /\ IF variant = "c" /\ TypesOk("c", prec[c].ft)
          /\ token_index_max(prec[c].a, 1) > MAX_TOKENS
       THEN calls[c] < MaxRepeat /\ StoreBeyondTokenList(c)
       ELSE Process(c)

NextLong ==
  \/ \E n \in LongLengths, a \in Fillers, z \in Closers :
       loc[1].pc # "stopped" /\ PutInput(1, LongMessage(n, a, z))
  \/ ProcessLong(1)

\* One record, given messages of up to MaxLong entries
SpecLong == Init /\ [][NextLong]_vars

NextEntries ==
  \/ \E es \in OneEntryMessages : PutInput(1, es)
  \/ Process(1)

\* One record, given messages of one entry
SpecEntries == Init /\ [][NextEntries]_vars

NextTwoRecords ==
  \E c \in Callers :
    \/ \E es \in ProbeMessages : PutInput(c, es)
    \/ Process(c)

\* Two records of the same IOC, each processed one call at a time
SpecTwoRecords == Init /\ [][NextTwoRecords]_vars

\* ------------------------------------------------------------------
\* Two callers inside the subroutine at the same time
\* ------------------------------------------------------------------
\* The messages of the two records
ConcMessages == {<<5>>, <<5, 7>>, <<1, 2>>, <<6, 2>>}

InitConc ==
  /\ variant \in {"c", "cpp"}
  /\ \E ft \in FieldTypes, v0 \in InitialOutputs : \E m \in [Callers -> ConcMessages] :
       /\ prec = [c \in Callers |->
                    [NewRecord(ft, v0) EXCEPT !.a = Buffer(RenderMessage(m[c]))]]
       /\ given = m
  /\ ret = [c \in Callers |-> 0]
  /\ calls = [c \in Callers |-> 0]
  /\ old = prec
  /\ loc = [c \in Callers |-> IdleLocals]
  /\ strtok_save = [rec |-> 1, pos |-> 1]
  /\ IdleProtocol

\* The caller leaves the subroutine with return value rv
Return(c, rv) ==
  /\ ret' = [ret EXCEPT ![c] = rv]
  /\ calls' = [calls EXCEPT ![c] = calls[c] + 1]
  /\ loc' = [loc EXCEPT ![c] = IdleLocals]

\* Entry into handle_system_alarm_status: the type check; alarms.cpp then
\* copies the input and splits it into token_list
Call(c) ==
  /\ loc[c].pc = "idle"
  /\ calls[c] < MaxRepeat
  /\ old' = [old EXCEPT ![c] = prec[c]]
  /\ IF ~TypesOk(variant, prec[c].ft)
       THEN Return(c, -1)
       ELSE /\ loc' = [loc EXCEPT ![c] =
                  IF variant = "cpp"
                    THEN [IdleLocals EXCEPT !.pc = "token",
                                            !.token_list = getline_tokens(CStr(prec[c].a))]
                    ELSE [IdleLocals EXCEPT !.pc = "board", !.board_index = 1]]
            /\ UNCHANGED <<ret, calls>>
  /\ UNCHANGED <<protoVars, lockVars, termVars, pending, control, variant, prec, given, strtok_save>>

\* alarms.cpp: one pass of the loop over token_list
cpp_Token(c) ==
  /\ loc[c].pc = "token"
  /\ loc' = [loc EXCEPT ![c] =
       IF loc[c].token_list = <<>>
         THEN [@ EXCEPT !.pc = "write"]
         ELSE [@ EXCEPT !.out_bit_patterns = process_token(@, Head(loc[c].token_list)),
                        !.token_list = Tail(@)]]
  /\ UNCHANGED <<protoVars, lockVars, termVars, pending, control, variant, prec, ret, given, calls, old, strtok_save>>

\* alarms.cpp: the four outputs are written and the call returns
cpp_Write(c) ==
  /\ loc[c].pc = "write"
  /\ prec' = [prec EXCEPT ![c].vala = loc[c].out_bit_patterns[1],
                          ![c].valb = loc[c].out_bit_patterns[2],
                          ![c].valc = loc[c].out_bit_patterns[3],
                          ![c].vald = loc[c].out_bit_patterns[4]]
  /\ Return(c, 0)
  /\ UNCHANGED <<protoVars, lockVars, termVars, pending, control, variant, given, old, strtok_save>>

\* The board loop moves on, or the call returns after the last board
NextBoard(c) ==
  IF loc[c].board_index = NBOARDS
    THEN Return(c, 0)
    ELSE /\ loc' = [loc EXCEPT ![c] =
               [IdleLocals EXCEPT !.pc = "board", !.board_index = loc[c].board_index + 1]]
         /\ UNCHANGED <<ret, calls>>

\* alarms.c: strstr and strchr for the current board
c_FindBoard(c) ==
  /\ loc[c].pc = "board"
  /\ LET found_board == strstr(prec[c].a, BOARD_ARRAY[loc[c].board_index])
         board_status == strchr(prec[c].a, found_board, TAB)
     IN IF found_board = 0
          THEN /\ prec' = [prec EXCEPT ![c].vala = 0]
               /\ NextBoard(c)
        ELSE IF board_status = 0
          THEN /\ Return(c, -1)
               /\ UNCHANGED prec
        ELSE /\ loc' = [loc EXCEPT ![c].pc = "strtok", ![c].board_status = board_status + 1]
             /\ UNCHANGED <<prec, ret, calls>>
  /\ UNCHANGED <<protoVars, lockVars, termVars, pending, control, variant, given, old, strtok_save>>

\* alarms.c: token = strtok(board_status, ";")
c_StrtokFirst(c) ==
  /\ loc[c].pc = "strtok"
  /\ LET t == strtok(prec[c].a, loc[c].board_status)
     IN /\ prec' = [prec EXCEPT ![c].a = t.buf]
        /\ strtok_save' = [rec |-> c, pos |-> t.save]
        /\ loc' = [loc EXCEPT ![c].pc = "while", ![c].token = t.text,
                              ![c].token_null = (t.tok = <<>>)]
  /\ UNCHANGED <<protoVars, lockVars, termVars, pending, control, variant, ret, given, calls, old>>

\* alarms.c: one pass of while (token != NULL): the token is copied into
\* token_list and token = strtok(NULL, ";") continues from the saved position
c_While(c) ==
  /\ loc[c].pc = "while"
  /\ IF loc[c].token_null
       THEN /\ loc' = [loc EXCEPT ![c].pc = "lookup"]
            /\ UNCHANGED <<prec, strtok_save>>
       ELSE LET t == strtok(prec[strtok_save.rec].a, strtok_save.pos)
            IN /\ prec' = [prec EXCEPT ![strtok_save.rec].a = t.buf]
               /\ strtok_save' = [strtok_save EXCEPT !.pos = t.save]
               /\ loc' = [loc EXCEPT ![c].token_list = Append(@, loc[c].token),
                                     ![c].token = t.text,
                                     ![c].token_null = (t.tok = <<>>)]
  /\ UNCHANGED <<protoVars, lockVars, termVars, pending, control, variant, ret, given, calls, old>>

\* alarms.c: the lookup loops, the write of the bit pattern, the next board
c_Lookup(c) ==
  /\ loc[c].pc = "lookup"
  /\ prec' = [prec EXCEPT ![c].vala = lookup_bits(loc[c].token_list, loc[c].board_index)]
  /\ NextBoard(c)
  /\ UNCHANGED <<protoVars, lockVars, termVars, pending, control, variant, given, old, strtok_save>>

NextConc ==
  \E c \in Callers :
    \/ Call(c)
    \/ cpp_Token(c)
    \/ cpp_Write(c)
    \/ c_FindBoard(c)
    \/ c_StrtokFirst(c)
    \/ c_While(c)
    \/ c_Lookup(c)

\* Two records processed by two threads, their steps interleaved
SpecConc == InitConc /\ [][NextConc]_vars

\* ------------------------------------------------------------------
\* Reference notions for the claims
\* ------------------------------------------------------------------
Outputs(r) == <<r.vala, r.valb, r.valc, r.vald>>

\* The last action on caller c's record was a call that passed the type check
Decoded(c) == calls[c] >= 1 /\ TypesOk(variant, prec[c].ft)

\* The last call was the first one on a freshly put message
DecodedFirst(c) == calls[c] = 1 /\ TypesOk(variant, prec[c].ft)

\* Entry e names board b and carries fault i of its vocabulary (text compared
\* without regard to case)
Reports(e, b, i) ==
  /\ e.tab
  /\ e.id = BOARD_ARRAY[b]
  /\ strcmp_nocase(e.text, STATUS_TEXT_ARRAY(variant)[b][i + 1])

Reported(es, b, i) == \E k \in 1..Len(es) : Reports(EntryPool[es[k]], b, i)

FaultBits(b) == 0..(STATUS_TEXT_ARRAY_SIZE(variant)[b] - 1)

\* A non-empty entry that is a decoder entry error: no tab, unknown board or
\* unknown fault text
IsErrorEntry(e) ==
  /\ RenderEntry(e) # <<>>
  /\ ~\E b \in 1..NBOARDS : \E i \in FaultBits(b) : Reports(e, b, i)

\* What a call on a zeroed record holding the message es alone produces
DecodeAlone(es) ==
  handle_system_alarm_status(variant,
    [NewRecord(prec[1].ft, 0) EXCEPT !.a = Buffer(RenderMessage(es))])

\* The permutations of es, and es with one of its entries repeated
Reorderings(es) ==
  {[i \in 1..Len(es) |-> es[p[i]]] :
     p \in {q \in [1..Len(es) -> 1..Len(es)] :
              \A i, j \in 1..Len(es) : q[i] = q[j] => i = j}}

Repetitions(es) ==
  {SubSeq(es, 1, j) \o <<es[k]>> \o SubSeq(es, j + 1, Len(es)) :
     j \in 0..Len(es), k \in 1..Len(es)}

\* ------------------------------------------------------------------
\* Claims about the alarm status decoder
\* ------------------------------------------------------------------

\* C1: after decode, bit i of a board's mask is set if and only if the message
\* holds at least one entry naming that board with fault i of its vocabulary;
\* distinct faults of one board are OR-ed into its mask.
C1_BitIffReported ==
  DecodedFirst(1) =>
    \A b \in 1..NBOARDS : \A i \in FaultBits(b) :
      TestBit(Outputs(prec[1])[b], i) <=> Reported(given[1], b, i)

\* C1 restricted to alarms.cpp
C1_BitIffReported_cpp == variant = "cpp" => C1_BitIffReported

\* C2: after any sequence of calls the four masks equal the decode of the
\* most recent message alone; nothing of earlier calls is left.
C2_RebuiltFromLatest ==
  Decoded(1) => Outputs(prec[1]) = Outputs(DecodeAlone(given[1]).rec)

\* C2 restricted to alarms.cpp
C2_RebuiltFromLatest_cpp == variant = "cpp" => C2_RebuiltFromLatest

\* C3: an entry error is isolated to its entry: the call still returns
\* success and every other entry of the message still sets its bit.
C3_EntryErrorIsolated ==
  (DecodedFirst(1) /\ \E k \in 1..Len(given[1]) : IsErrorEntry(EntryPool[given[1][k]])) =>
    /\ ret[1] = 0
    /\ \A b \in 1..NBOARDS : \A i \in FaultBits(b) :
         Reported(given[1], b, i) => TestBit(Outputs(prec[1])[b], i)

\* C3 restricted to alarms.cpp
C3_EntryErrorIsolated_cpp == variant = "cpp" => C3_EntryErrorIsolated

\* C4: decoding the empty string sets all four masks to zero, whatever they
\* held before the call.
C4_EmptyAllZero ==
  (Decoded(1) /\ given[1] = <<>>) => Outputs(prec[1]) = <<0, 0, 0, 0>>

\* C4 restricted to alarms.cpp
C4_EmptyAllZero_cpp == variant = "cpp" => C4_EmptyAllZero

\* C5: permuting the entries of the message, or repeating one of them, does
\* not change the four masks the call produces.
C5_OrderDuplicateInsensitive ==
  DecodedFirst(1) =>
    \A es \in Reorderings(given[1]) \cup Repetitions(given[1]) :
      Outputs(prec[1]) =
        Outputs(handle_system_alarm_status(variant,
                  [old[1] EXCEPT !.a = Buffer(RenderMessage(es))]).rec)

\* C5 restricted to alarms.cpp
C5_OrderDuplicateInsensitive_cpp == variant = "cpp" => C5_OrderDuplicateInsensitive

\* C6: two calls given the same message produce the same four integers,
\* whatever was decoded before them and also when the second call runs on
\* the buffer the first one used.
C6_SameInputSameOutput ==
  \A c, d \in Callers :
    (Decoded(c) /\ Decoded(d) /\ given[c] = given[d]) =>
      Outputs(prec[c]) = Outputs(prec[d])

\* C6 restricted to alarms.cpp
C6_SameInputSameOutput_cpp == variant = "cpp" => C6_SameInputSameOutput

\* C7: with two callers inside the decoder at once, each caller's call ends
\* with the return value and the masks the same call yields when it runs alone.
C7_Reentrant ==
  \A c \in Callers :
    (loc[c].pc = "idle" /\ calls[c] >= 1) =>
      LET alone == handle_system_alarm_status(variant, old[c])
      IN /\ ret[c] = alone.ret
         /\ Outputs(prec[c]) = Outputs(alone.rec)

\* C7 restricted to alarms.cpp
C7_Reentrant_cpp == variant = "cpp" => C7_Reentrant

\* ==================================================================
\* The protocol engine: one command at a time, step by step
\* ==================================================================
\* Commands run one after the other in a behaviour
MaxCommands == 2

\* Values of the record a command with a %u or %{..} format writes
NatParams == {0, 1, 2, 3, 4, 32768}

\* Values of the record a command with a %#.nf format writes: 1.25, -0.5, 0.123456
FloatParams ==
  {[neg |-> FALSE, mant |-> 125, scale |-> 2],
   [neg |-> TRUE, mant |-> 5, scale |-> 1],
   [neg |-> FALSE, mant |-> 123456, scale |-> 6]}

\* The record values command name is run with
ParamsOf(name) ==
  IF name \notin DOMAIN WriteFormats THEN {0}
  ELSE LET fmt == WriteFormats[name].fmt
       IN IF \E i \in 1..Len(fmt) : fmt[i].k = "fixed" THEN FloatParams
          ELSE IF \E i \in 1..Len(fmt) : fmt[i].k \in {"u", "enum"} THEN NatParams
          ELSE {0}

\* The status line X<m><n>A<n>C<n>H<n>M<m><n>P<m><n> with the nine digits ds
StatusLine(ds) ==
  <<"X", Digits[ds[1] + 1], Digits[ds[2] + 1], "A", Digits[ds[3] + 1],
    "C", Digits[ds[4] + 1], "H", Digits[ds[5] + 1],
    "M", Digits[ds[6] + 1], Digits[ds[7] + 1], "P", Digits[ds[8] + 1], Digits[ds[9] + 1]>>

\* The digits of the status lines the device is made to send
StatusDigits ==
  {<<1, 8, 1, 3, 1, 0, 4, 0, 0>>, <<1, 2, 3, 4, 5, 6, 7, 8, 9>>,
   <<9, 8, 7, 6, 5, 4, 3, 2, 1>>, <<0, 0, 0, 0, 0, 0, 0, 0, 0>>}

\* What kind of reply an in template expects
TemplateKind(tmpl) ==
  IF tmpl[1].k = "s" THEN "version"
  ELSE IF Len(tmpl) = 1 THEN "ack"
  ELSE IF tmpl[2].k = "f" THEN "read"
  ELSE "status"

\* The lines the device sends when it accepts the command
WellFormed(tmpl) ==
  CASE TemplateKind(tmpl) = "version" ->
         {<<"I","P","S","1","2","0"," ","3",".","0","7">>}
    [] TemplateKind(tmpl) = "read" ->
         {<<"R","3",".","1","4","1","5","9">>, <<"R","-","0",".","5">>}
    [] TemplateKind(tmpl) = "status" -> {StatusLine(ds) : ds \in StatusDigits}
    [] TemplateKind(tmpl) = "ack" -> {<<tmpl[1].ch>>}

\* The lines beginning with ? : the bare ?, and ? before every line above
QuestionLines(tmpl) == {<<"?">>} \cup {<<"?">> \o l : l \in WellFormed(tmpl)}

\* Other lines that can arrive: cut short, garbled, or the reply to another command
OtherLines(tmpl) ==
  CASE TemplateKind(tmpl) = "version" -> {<<"I","P","S","1","2","0">>}
    [] TemplateKind(tmpl) = "read" -> {<<"R","X">>, <<"R">>, <<"X","1","8">>}
    [] TemplateKind(tmpl) = "status" ->
         {<<"X","1","2","A","3","C","4","H","5","M","6","7">>,
          <<"X","1","8","B","1","C","3","H","1","M","0","4","P","0","0">>,
          <<"X","1">>,
          <<"R","+","1",".","2","5">>}
    [] TemplateKind(tmpl) = "ack" -> {<<tmpl[1].ch, "9">>, <<"Z">>}

ReplyPool(tmpl) == WellFormed(tmpl) \cup QuestionLines(tmpl) \cup OtherLines(tmpl)

\* The classification of a line beginning with ?, in place of InOutcome
InOutcome_Rejecting(tmpl, line) ==
  IF line # <<>> /\ Head(line) = "?" THEN "rejected"
  ELSE IF MatchIn(tmpl, line, <<>>).ok THEN "matched" ELSE "mismatch"

\* How the engine classes a line read by an in command
InOutcome(tmpl, line) ==
  IF MatchIn(tmpl, line, <<>>).ok THEN "matched" ELSE "mismatch"

\* The converted values are put into their records; VAL is the record self
RECURSIVE ApplyWrites(_, _, _)
ApplyWrites(o, writes, self) ==
  IF writes = <<>> THEN o
  ELSE LET w == Head(writes)
       IN ApplyWrites([o EXCEPT ![IF w.to = "VAL" THEN self ELSE w.to] = w.value],
                      Tail(writes), self)

\* The engine after the current step: the protocol ends in success after its
\* last step
Advance(e) ==
  [e EXCEPT !.steps = Tail(@),
            !.outcome = IF Tail(e.steps) = <<>> THEN "success" ELSE @]

\* The error is noted and the protocol goes on with its next step
Abort_Continuing(e, why) == [e EXCEPT !.steps = Tail(@), !.outcome = why]

\* The error is noted and the protocol is run again from its first step
Abort_Retrying(e, why) ==
  [e EXCEPT !.steps = Protocol(pvariant, e.cmd), !.outcome = why]

\* The protocol is abandoned, the steps left are not run
Abort(e, why) == [e EXCEPT !.steps = <<>>, !.outcome = why]

InitProto ==
  /\ pvariant \in ProtocolVariants
  /\ eng = IdleEngine
  /\ outs = InitialValues
  /\ IdleConnection
  /\ LineAsConfigured
  /\ control = 0
  /\ variant = "c"
  /\ prec = [c \in Callers |-> NewRecord(FtString, 0)]
  /\ ret = [c \in Callers |-> 0]
  /\ given = [c \in Callers |-> <<>>]
  /\ calls = [c \in Callers |-> 0]
  /\ old = prec
  /\ loc = [c \in Callers |-> IdleLocals]
  /\ strtok_save = [rec |-> 1, pos |-> 1]

\* A record bound to command name processes with value param; a command that
\* sets leaves out setRemoteUnlocked while the record CONTROL holds 3
StartCommand_UnlockIfUnknown(name, param) ==
  /\ eng.steps = <<>>
  /\ eng.count < MaxCommands
  /\ eng' = [IdleEngine EXCEPT !.cmd = name, !.param = param,
                               !.steps = IF name \in DOMAIN WriteFormats /\ outs["CONTROL"] = 3
                                           THEN WriteCommand_NoPrecondition(pvariant, name)
                                           ELSE Protocol(pvariant, name),
                               !.before = outs,
                               !.count = eng.count + 1]
  /\ UNCHANGED <<pvariant, outs, decoderVars, concVars, lockVars, termVars, pending, control>>

\* A record bound to command name processes with value param
StartCommand(name, param) ==
  /\ eng.steps = <<>>
  /\ eng.count < MaxCommands
  /\ eng' = [IdleEngine EXCEPT !.cmd = name, !.param = param,
                               !.steps = Protocol(pvariant, name),
                               !.before = outs,
                               !.count = eng.count + 1]
  /\ UNCHANGED <<pvariant, outs, decoderVars, concVars, lockVars, termVars, pending, control>>

\* out "...": the line is formatted and sent, and the engine takes over the
\* terminator the device has from then on
StepOut_FollowingDevice ==
  /\ eng.steps # <<>>
  /\ Head(eng.steps).op = "out"
  /\ LET r == Render(Head(eng.steps).fmt, eng.param)
     IN /\ eng' = IF r.ok THEN Advance([eng EXCEPT !.sent = Append(@, r.line),
                                                  !.log = Append(@, Event("out", r.line, ""))])
                  ELSE Abort(eng, "formaterror")
        /\ devterm' = IF r.ok THEN DeviceTerminator(devterm, r.line) ELSE devterm
        /\ terminator' = devterm'
  /\ UNCHANGED <<pvariant, outs, decoderVars, concVars, lockVars, pending, control>>

\* out "...": the line is formatted and sent with the terminator of the
\* file; the device acts on it
StepOut ==
  /\ eng.steps # <<>>
  /\ Head(eng.steps).op = "out"
  /\ LET r == Render(Head(eng.steps).fmt, eng.param)
     IN /\ eng' = IF r.ok THEN Advance([eng EXCEPT !.sent = Append(@, r.line),
                                                  !.log = Append(@, Event("out", r.line, ""))])
                  ELSE Abort(eng, "formaterror")
        /\ devterm' = IF r.ok THEN DeviceTerminator(devterm, r.line) ELSE devterm
  /\ UNCHANGED <<pvariant, outs, decoderVars, concVars, lockVars, terminator, pending, control>>

\* wait 100;
StepWait ==
  /\ eng.steps # <<>>
  /\ Head(eng.steps).op = "wait"
  /\ eng' = Advance(eng)
  /\ UNCHANGED <<pvariant, outs, decoderVars, concVars, lockVars, termVars, pending, control>>

\* in "...": a line arrives and is matched against the template; redirected
\* values are put as they are converted; on a mismatch the @mismatch handler
\* reads the same line and the protocol ends
StepIn(line) ==
  /\ eng.steps # <<>>
  /\ Head(eng.steps).op = "in"
  /\ LET tmpl == Head(eng.steps).tmpl
         m == MatchIn(tmpl, line, <<>>)
         scan == InOutcome(tmpl, line)
         handler == MismatchHandler(pvariant, eng.cmd)
         seen == [eng EXCEPT !.reply = line, !.tmpl = tmpl, !.scan = scan, !.before = outs,
                             !.log = Append(@, Event("in", line, scan))]
     IN IF scan = "matched"
          THEN /\ outs' = ApplyWrites(outs, m.writes, eng.cmd)
               /\ eng' = Advance(seen)
          ELSE /\ outs' = ApplyWrites(ApplyWrites(outs, m.writes, eng.cmd),
                                      MatchIn(handler, line, <<>>).writes, eng.cmd)
               /\ eng' = Abort(seen, scan)
  /\ UNCHANGED <<pvariant, decoderVars, concVars, lockVars, termVars, pending, control>>

\* in "...": nothing arrives within replytimeout
StepInTimeout ==
  /\ eng.steps # <<>>
  /\ Head(eng.steps).op = "in"
  /\ eng' = Abort([eng EXCEPT !.log = Append(@, Event("timeout", NoLine, ""))], "replytimeout")
  /\ UNCHANGED <<pvariant, outs, decoderVars, concVars, lockVars, termVars, pending, control>>

\* The lines that can arrive while the engine is at an in command
Arriving ==
  IF eng.steps # <<>> /\ Head(eng.steps).op = "in"
    THEN ReplyPool(Head(eng.steps).tmpl) ELSE {}

NextProto ==
  \/ \E name \in CommandNames(pvariant) : \E param \in ParamsOf(name) :
       StartCommand(name, param)
  \/ StepOut
  \/ StepWait
  \/ \E line \in Arriving : StepIn(line)
  \/ StepInTimeout

\* The commands of one protocol file, run one after the other
SpecProto == InitProto /\ [][NextProto]_vars

\* The device is switched off and on: its terminator is <CR> again
PowerCycle ==
  /\ devterm' = <<CR>>
  /\ UNCHANGED <<protoVars, decoderVars, concVars, lockVars, terminator, pending, control>>

\* The commands that choose the device's terminator, and two that are answered
TermCommands(v) ==
  CommandNames(v) \cap {"setCommsResNormal", "setCommsResLF", "setCommsResExtended",
                        "setCommsResLFExtended", "getVersion", "setWaitInterval"}

NextTerm ==
  \/ \E name \in TermCommands(pvariant) : \E param \in ParamsOf(name) :
       StartCommand(name, param)
  \/ StepOut
  \/ StepWait
  \/ \E line \in Arriving : StepIn(line)
  \/ StepInTimeout
  \/ PowerCycle

\* Commands run one after the other on a device that may be power-cycled
SpecTerm == InitProto /\ [][NextTerm]_vars

\* The control modes of the device: C0 Local & Locked, C1 Remote & Locked,
\* C2 Local & Unlocked, C3 Remote & Unlocked
ControlModes == 0..3

\* The control mode of the device after it has taken line: C<n> sets mode n
DeviceControl(cur, line) ==
  IF Len(line) = 2 /\ line[1] = "C" /\ DecimalValue(<<line[2]>>) \in ControlModes
    THEN DecimalValue(<<line[2]>>)
    ELSE cur

\* What the device answers to line: a number to R<code> (1 to R0, 2 to any
\* other code), its name to V, its status to X, nothing to a Q command, and
\* to any other command the letter of the command
DeviceAnswer(line) ==
  CASE Head(line) = "R" -> << IF Tail(line) = <<"0">> THEN <<"R", "1">> ELSE <<"R", "2">> >>
    [] Head(line) = "V" -> << <<"I","P","S","1","2","0"," ","3",".","0","7">> >>
    [] Head(line) = "X" -> << StatusLine(<<1, 8, 1, 3, 1, 0, 4, 0, 0>>) >>
    [] Head(line) = "Q" -> <<>>
    [] OTHER -> << <<Head(line)>> >>

\* out "...": the line is sent and the device's answer is on its way
LateOut ==
  /\ eng.steps # <<>>
  /\ Head(eng.steps).op = "out"
  /\ LET r == Render(Head(eng.steps).fmt, eng.param)
     IN /\ eng' = IF r.ok THEN Advance([eng EXCEPT !.sent = Append(@, r.line),
                                                  !.log = Append(@, Event("out", r.line, ""))])
                  ELSE Abort(eng, "formaterror")
        /\ devterm' = IF r.ok THEN DeviceTerminator(devterm, r.line) ELSE devterm
        /\ pending' = IF r.ok THEN pending \o DeviceAnswer(r.line) ELSE pending
        /\ control' = IF r.ok THEN DeviceControl(control, r.line) ELSE control
  /\ UNCHANGED <<pvariant, outs, decoderVars, concVars, lockVars, terminator>>

\* in "...": the oldest answer on its way arrives in time and is read
LateIn ==
  /\ pending # <<>>
  /\ eng.steps # <<>>
  /\ Head(eng.steps).op = "in"
  /\ LET line == Head(pending)
         tmpl == Head(eng.steps).tmpl
         m == MatchIn(tmpl, line, <<>>)
         scan == InOutcome(tmpl, line)
         handler == MismatchHandler(pvariant, eng.cmd)
         seen == [eng EXCEPT !.reply = line, !.tmpl = tmpl, !.scan = scan, !.before = outs,
                             !.log = Append(@, Event("in", line, scan))]
     IN IF scan = "matched"
          THEN /\ outs' = ApplyWrites(outs, m.writes, eng.cmd)
               /\ eng' = Advance(seen)
          ELSE /\ outs' = ApplyWrites(ApplyWrites(outs, m.writes, eng.cmd),
                                      MatchIn(handler, line, <<>>).writes, eng.cmd)
               /\ eng' = Abort(seen, scan)
  /\ pending' = Tail(pending)
  /\ UNCHANGED <<pvariant, decoderVars, concVars, lockVars, termVars, control>>

\* in "...": no answer arrives within replytimeout; an answer on its way
\* stays on its way
LateInTimeout ==
  /\ eng.steps # <<>>
  /\ Head(eng.steps).op = "in"
  /\ eng' = Abort([eng EXCEPT !.log = Append(@, Event("timeout", NoLine, ""))], "replytimeout")
  /\ UNCHANGED <<pvariant, outs, decoderVars, concVars, lockVars, termVars, pending, control>>

\* The commands run against the answering device
LateCommands(v) ==
  CommandNames(v) \cap {"getDemandCurrent", "getDemandField", "getVersion", "setWaitInterval"}

NextLate ==
  \/ \E name \in LateCommands(pvariant) : \E param \in ParamsOf(name) :
       StartCommand(name, param)
  \/ LateOut
  \/ StepWait
  \/ LateIn
  \/ LateInTimeout

\* Commands run one after the other against a device that answers every
\* request, in order, sooner or later
SpecLate == InitProto /\ [][NextLate]_vars

\* out "...": the line is sent and the device takes it
ControlOut ==
  /\ eng.steps # <<>>
  /\ Head(eng.steps).op = "out"
  /\ LET r == Render(Head(eng.steps).fmt, eng.param)
     IN /\ eng' = IF r.ok THEN Advance([eng EXCEPT !.sent = Append(@, r.line),
                                                  !.log = Append(@, Event("out", r.line, ""))])
                  ELSE Abort(eng, "formaterror")
        /\ devterm' = IF r.ok THEN DeviceTerminator(devterm, r.line) ELSE devterm
        /\ control' = IF r.ok THEN DeviceControl(control, r.line) ELSE control
  /\ UNCHANGED <<pvariant, outs, decoderVars, concVars, lockVars, terminator, pending>>

\* The commands run against the device with a control mode
ControlCommands(v) ==
  CommandNames(v) \cap {"setRemoteUnlocked", "setControl", "setActivity", "setHeaterStatus",
                        "setCommsResLF", "getVersion"}

\* The full protocol file is loaded; the device is in any control mode
InitControl ==
  /\ pvariant = "full"
  /\ eng = IdleEngine
  /\ outs = InitialValues
  /\ IdleConnection
  /\ LineAsConfigured
  /\ control \in ControlModes
  /\ variant = "c"
  /\ prec = [c \in Callers |-> NewRecord(FtString, 0)]
  /\ ret = [c \in Callers |-> 0]
  /\ given = [c \in Callers |-> <<>>]
  /\ calls = [c \in Callers |-> 0]
  /\ old = prec
  /\ loc = [c \in Callers |-> IdleLocals]
  /\ strtok_save = [rec |-> 1, pos |-> 1]

NextControl ==
  \/ \E name \in ControlCommands(pvariant) : \E param \in ParamsOf(name) :
       StartCommand(name, param)
  \/ ControlOut
  \/ StepWait
  \/ \E line \in Arriving : StepIn(line)
  \/ StepInTimeout

\* Commands of the full protocol file run one after the other against a
\* device that takes every C line
SpecControl == InitControl /\ [][NextControl]_vars

\* ==================================================================
\* Several records on one device connection
\* ==================================================================
\* Commands each record runs
MaxRuns == 1

\* The commands the records run here: one that reads, one that sets and is
\* answered, one that sets and is not answered
LockCommands(v) == CommandNames(v) \cap {"getStatus", "setControl", "setCommsResNormal"}

\* The lock taken although another record holds it
LockFree_Always(h) == h \in {0} \cup Clients

\* The lock of the connection is free for a record to take
LockFree(h) == h = 0

\* One event on the connection, of run n of record c
WireEvent(c, op) == [who |-> c, run |-> client[c].runs, op |-> op]

\* Record c after the current step of its protocol; steps = <<>> ends the run
ClientAdvance(c) ==
  [client[c] EXCEPT !.steps = Tail(@),
                    !.state = IF Tail(client[c].steps) = <<>> THEN "idle" ELSE @,
                    !.outcome = IF Tail(client[c].steps) = <<>> THEN "success" ELSE @]

\* Record c gives its protocol up with an error
ClientAbort(c, why) ==
  [client[c] EXCEPT !.steps = <<>>, !.state = "idle", !.outcome = why]

\* The lock after record c has become cl: released when its run has ended
Released(cl) == IF cl.state = "idle" THEN 0 ELSE holder

InitLock ==
  /\ pvariant \in ProtocolVariants
  /\ eng = IdleEngine
  /\ outs = InitialValues
  /\ IdleConnection
  /\ LineAsConfigured
  /\ control = 0
  /\ variant = "c"
  /\ prec = [c \in Callers |-> NewRecord(FtString, 0)]
  /\ ret = [c \in Callers |-> 0]
  /\ given = [c \in Callers |-> <<>>]
  /\ calls = [c \in Callers |-> 0]
  /\ old = prec
  /\ loc = [c \in Callers |-> IdleLocals]
  /\ strtok_save = [rec |-> 1, pos |-> 1]

\* Record c processes: it asks for the connection to run command name
Request(c, name) ==
  /\ client[c].state = "idle"
  /\ client[c].runs < MaxRuns
  /\ client' = [client EXCEPT ![c] =
       [cmd |-> name, steps |-> Protocol(pvariant, name), state |-> "waiting",
        outcome |-> "none", runs |-> client[c].runs + 1]]
  /\ UNCHANGED <<holder, wire, protoVars, decoderVars, concVars, termVars, pending, control>>

\* Record c gets the lock and its protocol starts
Acquire(c) ==
  /\ client[c].state = "waiting"
  /\ LockFree(holder)
  /\ holder' = c
  /\ client' = [client EXCEPT ![c].state = "running"]
  /\ UNCHANGED <<wire, protoVars, decoderVars, concVars, termVars, pending, control>>

\* Record c did not get the lock within locktimeout
LockTimeout(c) ==
  /\ client[c].state = "waiting"
  /\ ~LockFree(holder)
  /\ client' = [client EXCEPT ![c] = ClientAbort(c, "locktimeout")]
  /\ UNCHANGED <<holder, wire, protoVars, decoderVars, concVars, termVars, pending, control>>

\* out of record c's protocol
ClientOut(c) ==
  /\ client[c].state = "running"
  /\ Head(client[c].steps).op = "out"
  /\ wire' = Append(wire, WireEvent(c, "out"))
  /\ client' = [client EXCEPT ![c] = ClientAdvance(c)]
  /\ holder' = Released(client'[c])
  /\ UNCHANGED <<protoVars, decoderVars, concVars, termVars, pending, control>>

\* wait of record c's protocol
ClientWait(c) ==
  /\ client[c].state = "running"
  /\ Head(client[c].steps).op = "wait"
  /\ client' = [client EXCEPT ![c] = ClientAdvance(c)]
  /\ holder' = Released(client'[c])
  /\ UNCHANGED <<wire, protoVars, decoderVars, concVars, termVars, pending, control>>

\* in of record c's protocol: a line is read
ClientIn(c, line) ==
  /\ client[c].state = "running"
  /\ Head(client[c].steps).op = "in"
  /\ wire' = Append(wire, WireEvent(c, "in"))
  /\ client' = [client EXCEPT ![c] =
       IF InOutcome(Head(client[c].steps).tmpl, line) = "matched"
         THEN ClientAdvance(c) ELSE ClientAbort(c, "mismatch")]
  /\ holder' = Released(client'[c])
  /\ UNCHANGED <<protoVars, decoderVars, concVars, termVars, pending, control>>

\* in of record c's protocol with no replytimeout: the engine goes on waiting
ClientInTimeout_Never(c) ==
  /\ client[c].state = "running"
  /\ Head(client[c].steps).op = "in"
  /\ UNCHANGED vars

\* in of record c's protocol: nothing comes within replytimeout
ClientInTimeout(c) ==
  /\ client[c].state = "running"
  /\ Head(client[c].steps).op = "in"
  /\ wire' = Append(wire, WireEvent(c, "timeout"))
  /\ client' = [client EXCEPT ![c] = ClientAbort(c, "replytimeout")]
  /\ holder' = 0
  /\ UNCHANGED <<protoVars, decoderVars, concVars, termVars, pending, control>>

\* The lines read here: one the template accepts and one it does not
LockReplies(c) ==
  IF client[c].state = "running" /\ Head(client[c].steps).op = "in"
    THEN WellFormed(Head(client[c].steps).tmpl) \cup {<<"?">>} ELSE {}

NextLock ==
  \E c \in Clients :
    \/ \E name \in LockCommands(pvariant) : Request(c, name)
    \/ Acquire(c)
    \/ LockTimeout(c)
    \/ ClientOut(c)
    \/ ClientWait(c)
    \/ \E line \in LockReplies(c) : ClientIn(c, line)
    \/ ClientInTimeout(c)

\* Two records processed at any times, their commands on one connection
SpecLock == InitLock /\ [][NextLock]_vars

\* What the engine does for record c on its own, whatever the device does:
\* it grants the lock or gives up at locktimeout, sends, waits, and gives up
\* reading at replytimeout
EngineStep(c) ==
  \/ Acquire(c)
  \/ LockTimeout(c)
  \/ ClientOut(c)
  \/ ClientWait(c)
  \/ ClientInTimeout(c)

\* The engine's timers run: a step of the engine that stays possible is taken.
\* Nothing is assumed of the device, which need not answer.
SpecLockFair == SpecLock /\ \A c \in Clients : WF_vars(EngineStep(c))

\* ------------------------------------------------------------------
\* Notions the protocol properties are stated with
\* ------------------------------------------------------------------
\* The line last read by an in command begins with ?
QuestionReply == Head(eng.reply) = "?"

\* The records that hold data (MISMATCH is the diagnostic record)
DataOutputs == OutputNames \ {"MISMATCH"}

\* The digit at position i of a line
DigitAt(line, i) == DigitVal(line[i])

\* getStatus has read a line that matched its template
StatusRead == eng.cmd = "getStatus" /\ eng.scan = "matched"

\* The six values every protocol file takes from the status line
SixStatusDigits ==
  /\ outs["FAULT"] = DigitAt(eng.reply, 2)
  /\ outs["LIMIT"] = DigitAt(eng.reply, 3)
  /\ outs["ACTIVITY"] = DigitAt(eng.reply, 5)
  /\ outs["CONTROL"] = DigitAt(eng.reply, 7)
  /\ outs["HEATER"] = DigitAt(eng.reply, 9)
  /\ outs["SWEEP"] = DigitAt(eng.reply, 12)

\* ------------------------------------------------------------------
\* Properties
\* ------------------------------------------------------------------
\* C8: whatever the command and the protocol file, a reply line beginning
\* with ? does not match the command's template (the protocol does not go on
\* as after a good reply) and no data record is written from it.
C8_QuestionNeverMatches ==
  QuestionReply =>
    /\ eng.scan # "matched"
    /\ eng.outcome \notin {"none", "success"}
    /\ \A n \in DataOutputs : outs[n] = eng.before[n]

\* C8 for the commands whose template begins with the echoed letter (all but
\* getVersion): this much holds.
C8_QuestionNeverMatches_echoed ==
  (QuestionReply /\ eng.cmd # "getVersion") => C8_QuestionNeverMatches

\* C9 (as stated): a reply beginning with ? has an outcome of its own, never
\* the outcome of a malformed reply that does not begin with ?.
C9_RejectedDistinct ==
  QuestionReply =>
    \A m \in OtherLines(eng.tmpl) :
      InOutcome(eng.tmpl, m) = "mismatch" => eng.scan # InOutcome(eng.tmpl, m)

\* C9 (amended): a reply beginning with ? has no outcome of its own.  Where
\* the template begins with a literal letter it is a mismatch, the outcome of
\* any malformed reply, and the protocol ends there; the @mismatch handler of
\* getStatus, where there is one, copies the line to the MISMATCH record; the
\* template of getVersion matches it when it has a space after its first word.
C9_RejectedIsMismatch ==
  QuestionReply =>
    /\ eng.scan \in {"matched", "mismatch"}
    /\ eng.tmpl[1].k = "lit" => (eng.scan = "mismatch" /\ eng.outcome = "mismatch")
    /\ eng.tmpl[1].k # "lit" =>
         (eng.scan = "matched" <=> WordPrefixLen(eng.reply) < Len(eng.reply))
    /\ (eng.scan = "mismatch" /\ MismatchHandler(pvariant, eng.cmd) # <<>>) =>
         outs["MISMATCH"] = eng.reply
    /\ \A m \in OtherLines(eng.tmpl) :
         (eng.scan = "mismatch" /\ InOutcome(eng.tmpl, m) = "mismatch") =>
           Abort(eng, InOutcome(eng.tmpl, m)).outcome = eng.outcome

\* A parameter read was answered with a line beginning with ? and ended in a mismatch
C9_Witness ==
  /\ QuestionReply
  /\ eng.cmd \in ReadNames
  /\ eng.outcome = "mismatch"

\* C10 (as stated): in every protocol file a status line that is read gives
\* seven values, each the digit at its position: fault, limit, activity,
\* control, heater, mode and sweep status; the polarity digits are ignored.
C10_SevenDigitsEveryVariant ==
  StatusRead =>
    /\ SixStatusDigits
    /\ outs["PARAMS"] = DigitAt(eng.reply, 11)

\* C10 (amended): a status line that is read gives fault, limit, activity,
\* control, heater and sweep status, each the digit at its position, in every
\* protocol file.  The mode digit is delivered (to PARAMS) by the legacy and
\* the read-only file only, which also require P and two digits; the full
\* file skips the mode digit, leaves PARAMS as it was and reads nothing after
\* the sweep status.
C10_StatusDigits ==
  StatusRead =>
    /\ SixStatusDigits
    /\ pvariant # "full" =>
         /\ outs["PARAMS"] = DigitAt(eng.reply, 11)
         /\ Len(eng.reply) >= 15
         /\ eng.reply[13] = "P" /\ IsDigit(eng.reply[14]) /\ IsDigit(eng.reply[15])
    /\ pvariant = "full" => outs["PARAMS"] = eng.before["PARAMS"]

\* The full protocol file has read the status line X12A3C4H5M67P89
C10_Witness ==
  /\ StatusRead
  /\ pvariant = "full"
  /\ eng.reply = StatusLine(<<1, 2, 3, 4, 5, 6, 7, 8, 9>>)
  /\ eng.outcome = "success"

\* ------------------------------------------------------------------
\* Further notions: the commands that set, and what passed on the stream
\* ------------------------------------------------------------------
\* The command running (or last run) is one that sets something
IsWrite == eng.cmd \in DOMAIN WriteFormats

\* The number of out commands among steps
RECURSIVE OutCount(_)
OutCount(steps) ==
  IF steps = <<>> THEN 0
  ELSE (IF Head(steps).op = "out" THEN 1 ELSE 0) + OutCount(Tail(steps))

\* The request of the command itself (the last out of its protocol) has been sent
OwnRequestSent ==
  /\ eng.cmd # ""
  /\ Len(eng.sent) = OutCount(Protocol(pvariant, eng.cmd))

\* The stream began with the exchange "C3" sent, a line beginning with C read
UnlockedFirst ==
  /\ Len(eng.log) >= 2
  /\ eng.log[1] = Event("out", <<"C", "3">>, "")
  /\ eng.log[2].op = "in" /\ eng.log[2].scan = "matched" /\ Head(eng.log[2].line) = "C"

\* The protocol has ended in an error
Failed == eng.outcome \in {"mismatch", "replytimeout", "formaterror"}

\* C11: a status line that mismatches at any position fails as a whole: no
\* status record is written from the part of the line before the mismatch.
C11_StatusMismatchAtomic ==
  (eng.cmd = "getStatus" /\ eng.scan = "mismatch") =>
    \A n \in StatusOutputs : outs[n] = eng.before[n]

\* C12 (as stated): in every protocol file that has commands that set, such a
\* command sends its own request only after the exchange C3 / C has completed.
C12_UnlockedBeforeEveryWrite ==
  (IsWrite /\ OwnRequestSent) =>
    /\ UnlockedFirst
    /\ Len(eng.log) >= 3 /\ eng.log[3].op = "out"

\* C12 (amended): in the full protocol file every command that sets sends its
\* own request only after C3 was sent and a line beginning with C was read; in
\* the legacy file a command that sets sends its own request first, with no
\* such exchange.
C12_UnlockedBeforeWriteFull ==
  (IsWrite /\ eng.sent # <<>>) =>
    /\ pvariant = "full" =>
         /\ eng.log[1] = Event("out", <<"C", "3">>, "")
         /\ OwnRequestSent => (UnlockedFirst /\ eng.log[3].op = "out" /\ Len(eng.sent) = 2)
    /\ pvariant = "legacy" =>
         /\ Len(eng.sent) = 1
         /\ eng.log[1] = Event("out", Render(WriteFormats[eng.cmd].fmt, eng.param).line, "")

\* The full file has run setSetpointCurrent to its end
C12_Witness ==
  /\ pvariant = "full"
  /\ eng.cmd = "setSetpointCurrent"
  /\ OwnRequestSent
  /\ eng.outcome = "success"

\* The exchange C3 / C of a command that sets has failed: nothing came, or
\* the line read did not match (a line beginning with ? among them)
UnlockFailed ==
  /\ pvariant = "full"
  /\ IsWrite
  /\ Len(eng.log) >= 2
  /\ eng.log[1] = Event("out", <<"C", "3">>, "")
  /\ \/ eng.log[2].op = "timeout"
     \/ eng.log[2].op = "in" /\ eng.log[2].scan # "matched"

\* C13: when the exchange C3 / C in front of a command that sets fails
\* (no reply in time, a reply that mismatches, a reply beginning with ?), the
\* command ends there as failed: its own request is never sent and C3 is not
\* sent again.
C13_FailedUnlockAborts ==
  UnlockFailed =>
    /\ eng.sent = << <<"C", "3">> >>
    /\ Len(eng.log) = 2
    /\ eng.steps = <<>>
    /\ Failed

\* setSetpointField in the full file: C3 was answered by ?C
C13_Witness ==
  /\ UnlockFailed
  /\ eng.cmd = "setSetpointField"
  /\ eng.log[2].line = <<"?", "C">>
  /\ eng.outcome = "mismatch"

\* C14: a command that sets and that the device answers (all but the Q
\* commands) has read the answer to every request it sent by the time it
\* completes: in its stream every request is followed by a line read and
\* matched, so requests and lines read are equal in number.
C14_AckReadBeforeCompletion ==
  (IsWrite /\ eng.outcome = "success") =>
    /\ \A i \in 1..Len(eng.log) :
         (eng.log[i].op = "out" /\ Head(eng.log[i].line) # "Q") =>
           /\ i < Len(eng.log)
           /\ eng.log[i + 1].op = "in"
           /\ eng.log[i + 1].scan = "matched"
    /\ Cardinality({i \in 1..Len(eng.log) :
                      eng.log[i].op = "out" /\ Head(eng.log[i].line) # "Q"})
         = Cardinality({i \in 1..Len(eng.log) : eng.log[i].op = "in"})

\* setActivity in the full file has completed: C3, C, A<n>, A
C14_Witness ==
  /\ pvariant = "full"
  /\ eng.cmd = "setActivity"
  /\ eng.outcome = "success"
  /\ Len(eng.log) = 4

\* The lines V, X and R<code> of the commands that read
QueryLines == {<<"V">>, <<"X">>} \cup {<<"R">> \o ReadCodes[n] : n \in ReadNames}

\* C15 (as stated): the read-only protocol file defines the version query,
\* 17 parameter reads and the status query and nothing else, and never sends
\* a line other than V, R<code> or X.
C15_ReadOnlySeventeenReads ==
  pvariant = "test" =>
    /\ CommandNames("test") \ ReadNames = {"getVersion", "getStatus"}
    /\ Cardinality(CommandNames("test") \cap ReadNames) = 17
    /\ \A i \in 1..Len(eng.sent) : eng.sent[i] \in QueryLines

\* C15 (amended): the read-only protocol file defines the version query, 18
\* parameter reads (R0, R1, R2, R5..R9, R15..R24) and the status query and
\* nothing else, and never sends a line other than V, R<code> or X.
C15_ReadOnlyQueriesOnly ==
  pvariant = "test" =>
    /\ CommandNames("test") \ ReadNames = {"getVersion", "getStatus"}
    /\ Cardinality(CommandNames("test") \cap ReadNames) = 18
    /\ Cardinality({ReadCodes[n] : n \in CommandNames("test") \cap ReadNames}) = 18
    /\ \A i \in 1..Len(eng.sent) : eng.sent[i] \in QueryLines

\* The read-only file has sent R24
C15_Witness ==
  /\ pvariant = "test"
  /\ eng.sent = << <<"R", "2", "4">> >>

\* The letters of the commands left out on purpose, and the codes of the
\* parameter reads left out
ReservedLetters == {"U", "Y", "Z", "~", "!", "F", "P"}

ReservedReadCodes ==
  {<<"3">>, <<"4">>, <<"1", "0">>, <<"1", "1">>, <<"1", "2">>, <<"1", "3">>, <<"1", "4">>}

\* C16: whatever the protocol file and the commands run, no line sent is a
\* U, Y, Z, ~, !, F or P command or a parameter read R3, R4, R10..R14.
C16_NoReservedCommand ==
  \A i \in 1..Len(eng.sent) :
    /\ Head(eng.sent[i]) \notin ReservedLetters
    /\ Head(eng.sent[i]) = "R" => Tail(eng.sent[i]) \notin ReservedReadCodes

\* R15, the read next to the codes left out, has been sent
C16_Witness == eng.sent = << <<"R", "1", "5">> >>

\* C17: at most one command is in flight on the connection: the events of
\* two runs never interleave on the wire (between two events of one run there
\* is no event of another), and only the record holding the lock is running.
C17_OneCommandInFlight ==
  /\ \A i, k \in 1..Len(wire) :
       (i < k /\ wire[i].who = wire[k].who /\ wire[i].run = wire[k].run) =>
         \A j \in i..k : wire[j].who = wire[i].who
  /\ \A c \in Clients : client[c].state = "running" => holder = c
  /\ \A c, d \in Clients :
       (client[c].state = "running" /\ client[d].state = "running") => c = d

\* Both records have had a reply read on the connection, one after the other
C17_Witness ==
  /\ \E i \in 1..Len(wire) : wire[i].who = 1 /\ wire[i].op = "in"
  /\ \E i \in 1..Len(wire) : wire[i].who = 2 /\ wire[i].op = "in"

\* The formats of the out commands among steps, in order
IsOutStep(s) == s.op = "out"

IsInStep(s) == s.op = "in"

OutSteps(steps) == SelectSeq(steps, IsOutStep)

InSteps(steps) == SelectSeq(steps, IsInStep)

\* C18: nothing is tried again.  In one run of a command the lines sent are
\* the requests of its protocol in their order, each sent at most once (that of
\* the exchange C3 / C included), no more lines are read than the protocol has
\* in commands, and a reply timeout or a mismatch (a line beginning with ?
\* among them) is the last event of the run, which ends as failed.
C18_NoRetry ==
  eng.cmd # "" =>
    LET outsteps == OutSteps(Protocol(pvariant, eng.cmd))
        insteps == InSteps(Protocol(pvariant, eng.cmd))
    IN /\ Len(eng.sent) <= Len(outsteps)
       /\ \A i \in 1..Len(eng.sent) :
            eng.sent[i] = Render(outsteps[i].fmt, eng.param).line
       /\ Cardinality({i \in 1..Len(eng.log) : eng.log[i].op # "out"}) <= Len(insteps)
       /\ \A i \in 1..Len(eng.log) :
            (eng.log[i].op = "timeout" \/ eng.log[i].scan = "mismatch") =>
              /\ i = Len(eng.log)
              /\ Failed
              /\ eng.steps = <<>>
       /\ Failed => eng.steps = <<>>

\* setMode in the full file: C3 was answered, M<n> was not answered in time
C18_Witness ==
  /\ pvariant = "full"
  /\ eng.cmd = "setMode"
  /\ Len(eng.sent) = 2
  /\ eng.outcome = "replytimeout"

\* A decimal number with an optional sign: digits, then optionally a point
\* and digits
IsSignedDecimal(s) ==
  LET body == IF s # <<>> /\ Head(s) \in {"+", "-"} THEN Tail(s) ELSE s
      ni == DigitPrefixLen(body)
      after == SubSeq(body, ni + 1, Len(body))
  IN /\ ni >= 1
     /\ \/ after = <<>>
        \/ /\ Head(after) = "."
           /\ Len(after) >= 2
           /\ DigitPrefixLen(Tail(after)) = Len(after) - 1

C20_ReplyEchoesLetter ==
  /\ \A name \in CommandNames(pvariant) :
       LET insteps == InSteps(Protocol(pvariant, name))
       IN \A i \in 1..Len(insteps) :
            insteps[i].tmpl[1].k = "lit" <=> name # "getVersion"
  /\ eng.cmd # "getVersion" =>
       \A i \in 1..Len(eng.log) :
         (eng.log[i].op = "in" /\ eng.log[i].scan = "matched") =>
           /\ i > 1
           /\ eng.log[i - 1].op = "out"
           /\ Head(eng.log[i].line) = Head(eng.log[i - 1].line)
           /\ eng.cmd \in ReadNames =>
                /\ ScanFloat(Tail(eng.log[i].line)).n > 0
                /\ outs[eng.cmd] = ScanFloat(Tail(eng.log[i].line)).value

\* getDemandField: R7 was answered by R3.14159
C20_Witness ==
  /\ eng.cmd = "getDemandField"
  /\ eng.sent = << <<"R", "7">> >>
  /\ eng.reply = <<"R", "3", ".", "1", "4", "1", "5", "9">>
  /\ outs["getDemandField"] = [neg |-> FALSE, mant |-> 314159, scale |-> 5]
  /\ eng.outcome = "success"

\* C21: a command that sets takes a line as its acknowledgement only if the
\* line is the letter alone: a letter followed by more characters is not
\* taken as success.
C21_AckIsLetterAlone ==
  (IsWrite \/ eng.cmd = "setRemoteUnlocked") =>
    \A i \in 1..Len(eng.log) :
      (eng.log[i].op = "in" /\ eng.log[i].scan = "matched") =>
        Len(eng.log[i].line) = 1

\* The device is known to be in control mode 3, Remote & Unlocked: the
\* record CONTROL holds the digit after C of the last status line
KnownRemoteUnlocked == outs["CONTROL"] = 3

\* C22 (as stated): a command that sets and runs while the device is known to
\* be Remote & Unlocked sends its own request first, with no C3 before it.
C22_NoUnlockWhenKnown ==
  (IsWrite /\ KnownRemoteUnlocked /\ eng.sent # <<>>) =>
    eng.sent[1] = Render(WriteFormats[eng.cmd].fmt, eng.param).line

\* C22 (amended): what a command that sets sends first does not depend on
\* what is known of the device: in the full file it is C3, also when the
\* device is known to be Remote & Unlocked, in the legacy file it is the
\* command's own request, also when it is not.
C22_UnlockWhateverIsKnown ==
  (IsWrite /\ eng.sent # <<>>) =>
    eng.sent[1] = IF pvariant = "full" THEN <<"C", "3">>
                  ELSE Render(WriteFormats[eng.cmd].fmt, eng.param).line

\* Control mode 3 was read by getStatus, then setMode of the full file ran to
\* its end with C3 sent first
C22_Witness ==
  /\ pvariant = "full"
  /\ eng.cmd = "setMode"
  /\ KnownRemoteUnlocked
  /\ Len(eng.sent) = 2
  /\ eng.sent[1] = <<"C", "3">>
  /\ eng.outcome = "success"

\* C27: the terminator of the engine is the one its protocol file sets and
\* no step changes it: not a command that makes the device use another
\* terminator (Q2, Q6, or Q0, Q4 back), not a power cycle of the device.  The
\* engine does not take over the terminator of the device.
C27_TerminatorKept ==
  [][/\ terminator' = terminator
     /\ terminator' = Terminator(pvariant)]_vars

\* The device was told to end its replies with <CR><LF>; the engine still
\* uses <CR>
C27_Witness ==
  /\ eng.cmd = "setCommsResLF"
  /\ eng.outcome = "success"
  /\ devterm = <<CR, LF>>
  /\ terminator = <<CR>>

\* In the protocol p every out and every in is directly followed by wait 100
EachStepFollowedByWait(p) ==
  \A i \in 1..Len(p) :
    p[i].op \in {"out", "in"} => (i < Len(p) /\ p[i + 1] = Wait(WaitMs))

\* The step of the running command that was executed last
LastStepRun ==
  LET p == Protocol(pvariant, eng.cmd) IN p[Len(p) - Len(eng.steps)]

\* C28 (as stated): in every protocol file each out and each in of every
\* command is followed by a wait of 100 ms, so that a delay lies between any
\* two lines sent.
C28_DelayedEveryVariant ==
  \A name \in CommandNames(pvariant) : EachStepFollowedByWait(Protocol(pvariant, name))

\* C28 (amended): in the full file each out and each in of every command is
\* directly followed by wait 100, so the engine is in a wait before it sends
\* a second line of a command and at the end of every command; the legacy
\* file and the test file have no wait at all.
C28_DelayedInFullOnly ==
  /\ \A name \in CommandNames(pvariant) :
       LET p == Protocol(pvariant, name)
       IN IF pvariant = "full" THEN EachStepFollowedByWait(p)
          ELSE \A i \in 1..Len(p) : p[i].op # "wait"
  /\ (pvariant = "full" /\ eng.sent # <<>> /\ eng.steps # <<>>
        /\ Head(eng.steps).op = "out") => LastStepRun = Wait(WaitMs)
  /\ (pvariant = "full" /\ eng.outcome = "success") => LastStepRun = Wait(WaitMs)

\* setMode of the full file is about to send its own line: C3 was sent and
\* answered and the wait after the answer is over
C28_Witness ==
  /\ pvariant = "full"
  /\ eng.cmd = "setMode"
  /\ eng.sent = << <<"C", "3">> >>
  /\ eng.steps # <<>>
  /\ Head(eng.steps).op = "out"
  /\ LastStepRun = Wait(WaitMs)

\* The lines sent in the run that begin with the letter ch
SentWith(ch) ==
  {eng.sent[i] : i \in {k \in 1..Len(eng.sent) : Head(eng.sent[k]) = ch}}

\* C29: whatever value the record holds, a line sent that begins with C is
\* C0, C1, C2 or C3 and one that begins with H is H0 or H1; for a value
\* without a string (H2 among them) the command sends no line of its own.
C29_ControlAndHeaterLines ==
  /\ SentWith("C") \subseteq {<<"C", "0">>, <<"C", "1">>, <<"C", "2">>, <<"C", "3">>}
  /\ SentWith("H") \subseteq {<<"H", "0">>, <<"H", "1">>}
  /\ (eng.cmd = "setControl" /\ eng.param \notin 0..3 /\ eng.steps = <<>>) =>
       (eng.outcome # "success" /\ SentWith("C") \subseteq {<<"C", "3">>})
  /\ (eng.cmd = "setHeaterStatus" /\ eng.param \notin 0..1 /\ eng.steps = <<>>) =>
       (eng.outcome # "success" /\ SentWith("H") = {})

\* setHeaterStatus ran with the value 2: C3 was sent and answered, H2 was not
\* sent
C29_Witness ==
  /\ eng.cmd = "setHeaterStatus"
  /\ eng.param = 2
  /\ eng.sent = << <<"C", "3">> >>
  /\ eng.outcome = "formaterror"

\* C30: whatever value the record holds, a line sent that begins with A is
\* A0, A1, A2 or A4, and one that begins with W is W followed by a number
\* from 0 to 32767.
C30_ActivityAndWaitLines ==
  /\ SentWith("A") \subseteq {<<"A", "0">>, <<"A", "1">>, <<"A", "2">>, <<"A", "4">>}
  /\ \A line \in SentWith("W") :
       /\ DigitPrefixLen(Tail(line)) = Len(line) - 1
       /\ Len(line) >= 2
       /\ DecimalValue(Tail(line)) \in 0..32767

\* getStatus has read a line that does not match its template
StatusMismatched == eng.cmd = "getStatus" /\ eng.scan = "mismatch"

\* C31 (as stated): when the line read by getStatus does not match, the whole
\* line is put into the record MISMATCH and the command has failed.
C31_MismatchCapturedEveryVariant ==
  StatusMismatched =>
    /\ outs["MISMATCH"] = eng.reply
    /\ Failed

\* C31 (amended): when the line read by getStatus does not match, the command
\* has failed with a mismatch; in the legacy file and in the test file the
\* whole line is in the record MISMATCH, in the full file, which has no
\* @mismatch handler, MISMATCH is as it was.
C31_MismatchCaptured ==
  StatusMismatched =>
    /\ eng.outcome = "mismatch"
    /\ eng.steps = <<>>
    /\ pvariant \in {"legacy", "test"} => outs["MISMATCH"] = eng.reply
    /\ pvariant = "full" => outs["MISMATCH"] = eng.before["MISMATCH"]

\* The legacy getStatus has read X18B1C3H1M04P00
C31_Witness ==
  /\ pvariant = "legacy"
  /\ StatusMismatched
  /\ eng.reply = <<"X","1","8","B","1","C","3","H","1","M","0","4","P","0","0">>
  /\ outs["MISMATCH"] = eng.reply
  /\ eng.outcome = "mismatch"

\* The outcomes a command can end with
Outcomes == {"success", "mismatch", "replytimeout", "locktimeout"}

\* C32: every command a record has issued ends, in success or in failure:
\* waiting for the lock ends with the lock or at locktimeout, waiting for a
\* reply ends with a line or at replytimeout, also when the device never
\* answers.
C32_EveryCommandEnds ==
  \A c \in Clients :
    (client[c].state # "idle") ~>
      (client[c].state = "idle" /\ client[c].outcome \in Outcomes)

\* One record gave up at locktimeout while the other, never answered, gave up
\* at replytimeout
C32_Witness ==
  /\ client[1].state = "idle" /\ client[1].outcome = "replytimeout"
  /\ client[2].state = "idle" /\ client[2].outcome = "locktimeout"

\* C33: the line a parameter read takes as its reply is the device's answer
\* to the request this command sent, also after commands that timed out.
C33_OwnReply ==
  (eng.cmd \in ReadNames /\ eng.scan = "matched") =>
    /\ <<eng.reply>> = DeviceAnswer(eng.sent[Len(eng.sent)])
    /\ outs[eng.cmd] = ScanFloat(Tail(DeviceAnswer(eng.sent[Len(eng.sent)])[1])).value

\* The C lines the command has sent, in order
ControlLinesSent == SelectSeq(eng.sent, LAMBDA l : Head(l) = "C")

\* The command changes the state of the device
StateMutating == IsWrite \/ eng.cmd = "setRemoteUnlocked"

\* C34: in the full variant a successful command that sets, other than
\* setControl, has sent the one C line C3 and leaves the device in mode 3; a
\* successful setControl(n) has sent C3 and then C<n> and leaves it in mode
\* n; a successful command that reads has sent no C line. The mode of the
\* device is the parameter of the last C line sent.
C34_ControlFollowsLastCLine ==
  (pvariant = "full" /\ eng.outcome = "success") =>
    /\ ControlLinesSent # <<>> =>
         control = DecimalValue(Tail(ControlLinesSent[Len(ControlLinesSent)]))
    /\ (StateMutating /\ eng.cmd # "setControl") =>
         /\ ControlLinesSent = << <<"C", "3">> >>
         /\ control = 3
    /\ eng.cmd = "setControl" =>
         /\ eng.param \in ControlModes
         /\ ControlLinesSent = << <<"C", "3">>, <<"C">> \o DecimalDigits(eng.param) >>
         /\ control = eng.param
    /\ ~StateMutating => ControlLinesSent = <<>>

C34_Witness ==
  /\ pvariant = "full"
  /\ eng.count = 2
  /\ eng.cmd = "setControl"
  /\ eng.param = 1
  /\ eng.outcome = "success"
  /\ eng.sent = << <<"C", "3">>, <<"C", "1">> >>
  /\ control = 1

\* ------------------------------------------------------------------
\* Further claims about the alarm status decoder
\* ------------------------------------------------------------------
\* The texts a and b are the same once every letter is made lower case
SameTextAnyCase(a, b) ==
  [i \in 1..Len(a) |-> tolower(a[i])] = [i \in 1..Len(b) |-> tolower(b[i])]

\* Entry e names one of the four boards before its tab
NamesBoard(e) == e.tab /\ \E b \in 1..NBOARDS : e.id = BOARD_ARRAY[b]

\* The message put into record 1 is the one entry e, decoded once
DecodedOne(e) ==
  /\ DecodedFirst(1)
  /\ Len(given[1]) = 1
  /\ EntryPool[given[1][1]] = e

\* C23: the fault text of an entry that names a board sets bit i of that
\* board exactly when the whole text equals entry i of the board's vocabulary
\* without regard to letter case; a prefix, a longer text or a part of a
\* vocabulary entry sets no bit.  For both decoders.
C23_WholeTextAnyCase ==
  \A k \in 1..Len(EntryPool) :
    (DecodedOne(EntryPool[k]) /\ NamesBoard(EntryPool[k])) =>
      \A b \in 1..NBOARDS : \A i \in FaultBits(b) :
        TestBit(Outputs(prec[1])[b], i) <=>
          /\ EntryPool[k].id = BOARD_ARRAY[b]
          /\ SameTextAnyCase(EntryPool[k].text, STATUS_TEXT_ARRAY(variant)[b][i + 1])

\* C23 restricted to alarms.cpp
C23_WholeTextAnyCase_cpp == variant = "cpp" => C23_WholeTextAnyCase

\* C24: an entry whose text before the first tab is not one of the four board
\* IDs, letter for letter, sets no bit on any output: not when it holds a
\* board ID as a part, not when it differs from one in letter case.
C24_BoardIdExact ==
  \A k \in 1..Len(EntryPool) :
    (DecodedOne(EntryPool[k]) /\ EntryPool[k].tab /\ ~NamesBoard(EntryPool[k])) =>
      \A b \in 1..NBOARDS : \A i \in FaultBits(b) : ~TestBit(Outputs(prec[1])[b], i)

\* C24 restricted to alarms.cpp
C24_BoardIdExact_cpp == variant = "cpp" => C24_BoardIdExact

\* C25 (as stated): however many entries the message has, the empty ones are
\* dropped and every other one is processed, so that a bit is set exactly
\* when an entry reports it, and no more tokens are stored than the token
\* list has room for.
C25_NoEntryLimit ==
  /\ loc[1].pc # "stopped"
  /\ DecodedFirst(1) =>
       /\ variant = "c" => token_index_max(old[1].a, 1) <= MAX_TOKENS
       /\ \A b \in 1..NBOARDS : \A i \in FaultBits(b) :
            TestBit(Outputs(prec[1])[b], i) <=> Reported(given[1], b, i)

\* C25 restricted to alarms.cpp, whose token_list is a vector
C25_NoEntryLimit_cpp == variant = "cpp" => C25_NoEntryLimit

\* alarms.cpp has decoded a message of MaxLong entries
C25_Witness_cpp ==
  /\ variant = "cpp"
  /\ DecodedFirst(1)
  /\ Len(given[1]) = MaxLong
  /\ given[1][1] = 1 /\ given[1][MaxLong] = 2
  /\ Outputs(prec[1]) = <<3, 0, 0, 0>>

\* The number whose set bits are the members of bits
RECURSIVE MaskOf(_)
MaskOf(bits) ==
  IF bits = {} THEN 0
  ELSE LET i == Min(bits) IN Pow2(i) + MaskOf(bits \ {i})

\* The mask of board b for the message es: one bit per fault reported for b
BoardMask(es, b) == MaskOf({i \in FaultBits(b) : Reported(es, b, i)})

\* C26: after the call output A holds the mask of MB1.T1, B that of DB8.T1,
\* C that of DB1.L1 and D that of DB5.P1, each on its own output; a board no
\* entry reports has 0 on its output.
C26_FourOutputs ==
  DecodedFirst(1) =>
    /\ prec[1].vala = BoardMask(given[1], 1)
    /\ prec[1].valb = BoardMask(given[1], 2)
    /\ prec[1].valc = BoardMask(given[1], 3)
    /\ prec[1].vald = BoardMask(given[1], 4)

\* C26 restricted to alarms.cpp
C26_FourOutputs_cpp == variant = "cpp" => C26_FourOutputs

\* The field types the decoder of the variant asks for
TypesAskedFor == IF variant = "cpp" THEN FtChar ELSE FtString

\* The record has been processed with field types the decoder refuses
RefusedCall == calls[1] > 0 /\ prec[1].ft # TypesAskedFor

\* C35: a call with field types that fail the type check returns -1 and
\* leaves the record as it was: the four outputs keep the values they had
\* and the input is the text that was put in, not cut into tokens.
C35_TypeCheckFailure ==
  RefusedCall =>
    /\ ret[1] = -1
    /\ prec[1] = old[1]
    /\ prec[1].a = Buffer(RenderMessage(given[1]))
    /\ \E v0 \in InitialOutputs :
         <<prec[1].vala, prec[1].valb, prec[1].valc, prec[1].vald>> = <<v0, v0, v0, v0>>

C35_Witness ==
  /\ variant = "c"
  /\ prec[1].ft = FtChar
  /\ calls[1] = 1
  /\ ret[1] = -1
  /\ Len(given[1]) = 2
  /\ prec[1].vala # 0
  /\ \E i \in 1..Len(prec[1].a) : prec[1].a[i] = SEMI

\* C36: after a call the input field holds, character for character, the
\* text that was put into it.
C36_InputUnchanged ==
  calls[1] >= 1 => prec[1].a = Buffer(RenderMessage(given[1]))

\* C36 restricted to alarms.cpp
C36_InputUnchanged_cpp == variant = "cpp" => C36_InputUnchanged

\* The number of fault texts of board b
VocabularySize(b) == Len(STATUS_TEXT_ARRAY(variant)[b])

\* The four outputs, in the order of the boards
Emitted == <<prec[1].vala, prec[1].valb, prec[1].valc, prec[1].vald>>

\* C37: after a call every output is at least 0 and below 2 to the number of
\* fault texts of its board: 2^5 for the temperature boards, 2^8 or 2^9 for
\* the level board, 2^24 for the pressure board.
C37_MasksInRange ==
  Decoded(1) =>
    \A b \in 1..NBOARDS :
      /\ Emitted[b] >= 0
      /\ Emitted[b] < Pow2(VocabularySize(b))

\* C37 restricted to alarms.cpp
C37_MasksInRange_cpp == variant = "cpp" => C37_MasksInRange

====
